---- MODULE Spec2Model ----
(***************************************************************************)
(* Model of the PowerPoint-to-eBook conversion pipeline of src/app.py:     *)
(* slide extraction (extract_ppt_content), chapter grouping                *)
(* (_group_slides_into_chapters, _create_chapters_from_custom_ranges, the  *)
(* one-slide-per-chapter branch of main) and content enhancement           *)
(* (enhance_content_with_gemini with _clean_ai_response).                  *)
(*                                                                         *)
(* Strings are sequences of tokens.  A token is either one special         *)
(* character ("#", " ", ":", ".", "\n", ...) or a word, a run of ordinary  *)
(* characters written as a TLA+ string; the length of a string in          *)
(* characters is the sum of the lengths of its tokens.                     *)
(***************************************************************************)
EXTENDS Integers, Sequences, FiniteSets, TLC

(***************************************************************************)
(* Bounds of the model.                                                    *)
(***************************************************************************)
MaxSlides == 3
MaxPerChapter == 3
MaxRanges == 2
MaxLines == 3
MaxSide == 16
MaxPages == 4

(***************************************************************************)
(* Program constants.                                                      *)
(***************************************************************************)
TitleMaxLen == 100
IntroLineMaxLen == 100
MaxHeadingLevel == 4
max_width == 400
max_height == 300
ChapterTitleMaxLen == 100

(***************************************************************************)
(* Strings.                                                                *)
(***************************************************************************)
NL == "\n"

\* Python's None, and the empty string or list where the code tests "not x".
None == <<>>

RECURSIVE StrLen(_)
StrLen(s) == IF s = <<>> THEN 0 ELSE Len(Head(s)) + StrLen(Tail(s))

\* sep.join(parts): the parts with sep between neighbours.
RECURSIVE Join(_, _)
Join(sep, parts) ==
  IF parts = <<>> THEN <<>>
  ELSE IF Len(parts) = 1 THEN parts[1]
  ELSE parts[1] \o sep \o Join(sep, Tail(parts))

\* f"Slide {n}" and f"Chapter {n}"
FmtSlide(n) == <<"Slide", " ", ToString(n)>>
FmtChapter(n) == <<"Chapter", " ", ToString(n)>>

\* f"## {title}"
FmtHeading2(title) == <<"#", "#", " ">> \o title

RECURSIVE SumSeq(_)
SumSeq(s) == IF s = <<>> THEN 0 ELSE Head(s) + SumSeq(Tail(s))

RECURSIVE Flatten(_)
Flatten(ss) == IF ss = <<>> THEN <<>> ELSE Head(ss) \o Flatten(Tail(ss))

(***************************************************************************)
(* Whitespace and str.strip().                                             *)
(***************************************************************************)
Whitespace == {" ", NL, "\t"}

RECURSIVE LStripSet(_, _)
LStripSet(s, chars) ==
  IF s # <<>> /\ Head(s) \in chars THEN LStripSet(Tail(s), chars) ELSE s

RECURSIVE RStripSet(_, _)
RStripSet(s, chars) ==
  IF s # <<>> /\ s[Len(s)] \in chars
  THEN RStripSet(SubSeq(s, 1, Len(s) - 1), chars) ELSE s

Strip(s) == RStripSet(LStripSet(s, Whitespace), Whitespace)

(***************************************************************************)
(* Slide shapes: the input of the extraction (python-pptx shapes).         *)
(*   kind "text":    a shape with a text attribute (shape.text)            *)
(*   kind "picture": MSO_SHAPE_TYPE.PICTURE; readable = FALSE when reading *)
(*                   shape.image raises                                    *)
(*   kind "other":   a group or auto shape without text                    *)
(***************************************************************************)
LongWord ==
  "LoremIpsumDolorSitAmetConsecteturAdipiscingElitSedDoEiusmodTemporIncididuntUtLaboreEtDoloreMagnaAliquaUtEnim"

TextShape(t) == [kind |-> "text", text |-> t, name |-> <<"TextBox">>, readable |-> TRUE]
PictureShape(nm) == [kind |-> "picture", text |-> <<>>, name |-> nm, readable |-> TRUE]
CorruptPicture(nm) == [kind |-> "picture", text |-> <<>>, name |-> nm, readable |-> FALSE]
OtherShape(nm) == [kind |-> "other", text |-> <<>>, name |-> nm, readable |-> TRUE]

\* The shape lists a slide of the deck may hold: a title, a body and a
\* picture; a picture placed before the title and one after it; a slide with
\* no title-eligible text (its body is too long for a title, its other text
\* is blank) whose picture cannot be read.
SlideShapes(n) ==
  { << TextShape(<<" ", "Intro">>), TextShape(<<"Body", " ", "Steps">>),
       PictureShape(<<"Picture">>) >>,
    << PictureShape(<<"Graphic">>), TextShape(<<"Details", NL>>),
       PictureShape(<<"Picture">>) >>,
    << TextShape(<<LongWord>>), TextShape(<<" ">>), CorruptPicture(<<"Picture">>),
       OtherShape(<<"Group">>) >> }

\* More shape lists, for the extraction on its own: the picture before the
\* title and a body with a keyword; a picture whose name is a keyword of the
\* text list; a title that is a keyword of the name list; a slide without
\* any keyword; a picture with a keyword name before the title; a slide with
\* a picture and no title-eligible text.
ExtractShapeLists ==
  SlideShapes(1) \cup
  { << PictureShape(<<"Picture">>), TextShape(<<"Intro">>), TextShape(<<"Body", " ", "Steps">>) >>,
    << TextShape(<<"Intro">>), PictureShape(<<"Steps">>) >>,
    << TextShape(<<"Graphic">>), PictureShape(<<"Picture">>) >>,
    << TextShape(<<"Intro">>), TextShape(<<"Details">>), PictureShape(<<"Picture">>) >>,
    << PictureShape(<<"Flowchart">>), TextShape(<<"Intro">>) >>,
    << TextShape(<<LongWord>>), PictureShape(<<"Picture">>) >> }

(***************************************************************************)
(* _is_likely_diagram: keyword search in the lower-cased shape name and in *)
(* the lower-cased slide text.  A keyword has only letters, so it lies     *)
(* inside one word token; KeywordsOf gives, for the words of the model,    *)
(* the keywords that word.lower() contains.                                *)
(***************************************************************************)
diagram_keywords ==
  {"diagram", "flowchart", "chart", "flow", "process", "smartart", "graphic"}
diagram_text_keywords ==
  {"diagram", "flowchart", "process", "workflow", "chart", "flow", "steps", "procedure"}

KeywordsOf(w) ==
  CASE w = "Steps" -> {"steps"}
    [] w = "Graphic" -> {"graphic"}
    [] w = "Flowchart" -> {"flowchart", "chart", "flow"}
    [] w = "Workflow" -> {"workflow", "flow"}
    [] OTHER -> {}

ContainsAny(s, keywords) ==
  \E i \in 1..Len(s) : KeywordsOf(s[i]) \cap keywords # {}

_is_likely_diagram(shape, slide_content) ==
  IF shape.name # <<>> /\ ContainsAny(shape.name, diagram_keywords) THEN TRUE
  ELSE LET all_text == slide_content.title \o <<" ">> \o Join(<<" ">>, slide_content.content)
       IN  ContainsAny(all_text, diagram_text_keywords)

(***************************************************************************)
(* extract_ppt_content: one slide.                                         *)
(***************************************************************************)
EmptySlide(n) == [slide_number |-> n, title |-> <<>>, content |-> <<>>, images |-> <<>>]

\* The body of the loop over slide.shapes for shape j.
ExtractShape(sc, shape, j) ==
  IF shape.kind = "text" /\ Strip(shape.text) # <<>>
  THEN LET text == Strip(shape.text)
       IN  IF sc.title = <<>> /\ StrLen(text) < TitleMaxLen
           THEN [sc EXCEPT !.title = text]
           ELSE [sc EXCEPT !.content = Append(@, text)]
  ELSE IF shape.kind = "picture"
  THEN IF shape.readable
       THEN LET is_diagram == _is_likely_diagram(shape, sc)
                image_info == [id |-> <<sc.slide_number, j>>,
                               type |-> IF is_diagram THEN "diagram" ELSE "image",
                               shape_name |-> shape.name,
                               slide_number |-> sc.slide_number,
                               slide_title |-> sc.title]
            IN  [sc EXCEPT !.images = Append(@, image_info)]
       ELSE sc
  ELSE sc

RECURSIVE ExtractShapes(_, _, _)
ExtractShapes(sc, shapes, j) ==
  IF j > Len(shapes) THEN sc
  ELSE ExtractShapes(ExtractShape(sc, shapes[j], j), shapes, j + 1)

\* One iteration of the loop over presentation.slides, slide number n.
ExtractSlideRecord(n, shapes) ==
  LET sc == ExtractShapes(EmptySlide(n), shapes, 1)
  IN  IF sc.title = <<>> THEN [sc EXCEPT !.title = FmtSlide(n)] ELSE sc

(***************************************************************************)
(* Chapter grouping.                                                       *)
(***************************************************************************)
\* The "Combine all slide content" loop for one slide: the slide title as a
\* "## " heading line unless it is empty or the default title, then the
\* slide's content lines.
SlideSectionLines(slide) ==
  (IF slide.title # <<>> /\ slide.title # FmtSlide(slide.slide_number)
   THEN << FmtHeading2(slide.title) >> ELSE <<>>) \o slide.content

\* img['slide_number'] = slide['slide_number'] for every image of the slide.
SlideTaggedImages(slide) ==
  [i \in 1..Len(slide.images) |->
     [slide.images[i] EXCEPT !.slide_number = slide.slide_number]]

\* Mutant of CombinedContent: the chapter's image list is assigned per slide
\* instead of extended, so it ends up with the last slide's images only.
CombinedContentLastSlideImages(slides, chapter_number) ==
  [slide_numbers |-> [i \in 1..Len(slides) |-> slides[i].slide_number],
   title |-> FmtChapter(chapter_number),
   content |-> Flatten([i \in 1..Len(slides) |-> SlideSectionLines(slides[i])]),
   images |-> SlideTaggedImages(slides[Len(slides)]),
   chapter_number |-> chapter_number]

\* combined_content of the slides of one chapter.
CombinedContent(slides, chapter_number) ==
  [slide_numbers |-> [i \in 1..Len(slides) |-> slides[i].slide_number],
   title |-> FmtChapter(chapter_number),
   content |-> Flatten([i \in 1..Len(slides) |-> SlideSectionLines(slides[i])]),
   images |-> Flatten([i \in 1..Len(slides) |-> SlideTaggedImages(slides[i])]),
   chapter_number |-> chapter_number]

\* Mutant of ChapterIsFull: the last slide does not close the chapter.
ChapterIsFullNoLastSlide(current_chapter, slides_per_chapter, i, n) ==
  Len(current_chapter) >= slides_per_chapter

\* Mutant of ChapterIsFull: a chapter closes one slide late.
ChapterIsFullOffByOne(current_chapter, slides_per_chapter, i, n) ==
  Len(current_chapter) > slides_per_chapter \/ i = n

\* "Create a new chapter when we reach the limit or it's the last slide", at
\* slide index i (1-based) of n.
ChapterIsFull(current_chapter, slides_per_chapter, i, n) ==
  Len(current_chapter) >= slides_per_chapter \/ i = n

\* The loop of _group_slides_into_chapters from slide index i (1-based) on,
\* with the loop's local state.
RECURSIVE GroupLoop(_, _, _, _, _, _)
GroupLoop(slides_content, slides_per_chapter, i, chaps, current_chapter, chapter_number) ==
  IF i > Len(slides_content) THEN chaps
  ELSE LET cur == Append(current_chapter, slides_content[i])
       IN  IF ChapterIsFull(cur, slides_per_chapter, i, Len(slides_content))
           THEN GroupLoop(slides_content, slides_per_chapter, i + 1,
                          Append(chaps, CombinedContent(cur, chapter_number)),
                          <<>>, chapter_number + 1)
           ELSE GroupLoop(slides_content, slides_per_chapter, i + 1,
                          chaps, cur, chapter_number)

\* Mutant of _group_slides_into_chapters: chapter numbers counted from 0.
group_slides_numbered_from_zero(slides_content, slides_per_chapter) ==
  GroupLoop(slides_content, slides_per_chapter, 1, <<>>, <<>>, 0)

_group_slides_into_chapters(slides_content, slides_per_chapter) ==
  GroupLoop(slides_content, slides_per_chapter, 1, <<>>, <<>>, 1)

\* Mutant of SlidesInRange: the end of the range is exclusive.
SlidesInRangeExclusiveEnd(slides_content, range) ==
  SelectSeq(slides_content,
            LAMBDA slide : range[1] <= slide.slide_number /\ slide.slide_number < range[2])

\* slides_in_range of one (start_slide, end_slide) pair.
SlidesInRange(slides_content, range) ==
  SelectSeq(slides_content,
            LAMBDA slide : range[1] <= slide.slide_number /\ slide.slide_number <= range[2])

\* The loop of _create_chapters_from_custom_ranges over
\* enumerate(custom_ranges, 1), from chapter_num on.
RECURSIVE RangesLoop(_, _, _, _)
RangesLoop(slides_content, custom_ranges, chapter_num, chaps) ==
  IF chapter_num > Len(custom_ranges) THEN chaps
  ELSE LET slides_in_range == SlidesInRange(slides_content, custom_ranges[chapter_num])
       IN  RangesLoop(slides_content, custom_ranges, chapter_num + 1,
                      IF slides_in_range # <<>>
                      THEN Append(chaps, CombinedContent(slides_in_range, chapter_num))
                      ELSE chaps)

_create_chapters_from_custom_ranges(slides_content, custom_ranges) ==
  RangesLoop(slides_content, custom_ranges, 1, <<>>)

\* main, "One Slide Per Chapter": each slide converted to the chapter format.
OneSlidePerChapter(slides_content) ==
  [i \in 1..Len(slides_content) |->
     [slide_numbers |-> << slides_content[i].slide_number >>,
      title |-> slides_content[i].title,
      content |-> slides_content[i].content,
      images |-> slides_content[i].images,
      chapter_number |-> i]]

(***************************************************************************)
(* _clean_ai_response.                                                     *)
(***************************************************************************)
unwanted_phrases ==
  <<
     <<"Of", " ", "course", ".", " ", "Here", " ", "is", " ", "a", " ", "comprehensive", " ", "eBook", " ", "chapter">>,
     <<"Here", " ", "is", " ", "a", " ", "comprehensive", " ", "eBook", " ", "chapter">>,
     <<"Of", " ", "course", "!", " ", "Here", " ", "is", " ", "a", " ", "comprehensive", " ", "eBook", " ", "chapter">>,
     <<"Here", " ", "is", " ", "a", " ", "well-structured", " ", "eBook", " ", "chapter">>,
     <<"Of", " ", "course", ".", " ", "Here", " ", "is", " ", "a", " ", "well-structured", " ", "eBook", " ", "chapter">>,
     <<"Here's", " ", "a", " ", "comprehensive", " ", "eBook", " ", "chapter">>,
     <<"Of", " ", "course", "!", " ", "Here's", " ", "a", " ", "comprehensive", " ", "eBook", " ", "chapter">>,
     <<"section", " ", "based", " ", "on", " ", "the", " ", "provided", " ", "slide">>,
     <<"based", " ", "on", " ", "the", " ", "provided", " ", "slide", " ", "title">>,
     <<"based", " ", "on", " ", "the", " ", "slide", " ", "content">>,
     <<"Here", " ", "is", " ", "the", " ", "enhanced", " ", "content">>,
     <<"Of", " ", "course", ".">>
  >>

\* str.lower() on one token, for the words of the model that have capitals.
Lower(w) ==
  CASE w = "Of" -> "of"
    [] w = "OF" -> "of"
    [] w = "COURSE" -> "course"
    [] w = "Here" -> "here"
    [] w = "HERE" -> "here"
    [] w = "Here's" -> "here's"
    [] w = "eBook" -> "ebook"
    [] w = "Ebook" -> "ebook"
    [] w = "Based" -> "based"
    [] w = "Section" -> "section"
    [] OTHER -> w

\* A word of the text may continue the last word of a phrase ("chapters" after
\* "chapter"); the words of the model continue it by one of these suffixes.
WordSuffixes == {"s"}

\* text.lower().startswith(phrase.lower())
StartsWithLower(text, phrase) ==
  /\ Len(text) >= Len(phrase)
  /\ \A i \in 1..(Len(phrase) - 1) : Lower(text[i]) = Lower(phrase[i])
  /\ LET n == Len(phrase)
     IN  \/ Lower(text[n]) = Lower(phrase[n])
         \/ \E x \in WordSuffixes : Lower(text[n]) = Lower(phrase[n]) \o x

\* text[len(phrase):] when text starts with phrase.
DropPhrase(text, phrase) ==
  LET n == Len(phrase)
      rest == SubSeq(text, n + 1, Len(text))
  IN  IF Lower(text[n]) = Lower(phrase[n]) THEN rest
      ELSE << CHOOSE x \in WordSuffixes : Lower(text[n]) = Lower(phrase[n]) \o x >> \o rest

\* The loop over unwanted_phrases from phrase k on.
RECURSIVE RemovePhrases(_, _)
RemovePhrases(cleaned_text, k) ==
  IF k > Len(unwanted_phrases) THEN cleaned_text
  ELSE IF StartsWithLower(cleaned_text, unwanted_phrases[k])
       THEN RemovePhrases(
              LStripSet(Strip(DropPhrase(cleaned_text, unwanted_phrases[k])),
                        {":", ".", " ", NL}),
              k + 1)
       ELSE RemovePhrases(cleaned_text, k + 1)

\* text.split('\n'): always at least one (possibly empty) line.
RECURSIVE SplitLines(_)
SplitLines(text) ==
  IF \A i \in 1..Len(text) : text[i] # NL THEN << text >>
  ELSE LET k == CHOOSE i \in 1..Len(text) :
                  text[i] = NL /\ \A j \in 1..(i - 1) : text[j] # NL
       IN  << SubSeq(text, 1, k - 1) >> \o SplitLines(SubSeq(text, k + 1, Len(text)))

\* The "introductory sentence ending with a colon" rule.
DropIntroLine(cleaned_text) ==
  LET lines == SplitLines(cleaned_text)
      first == lines[1]
  IN  IF /\ \E i \in 1..Len(first) : first[i] = ":"
         /\ StrLen(first) < IntroLineMaxLen
         /\ Strip(first) # <<>>
         /\ Strip(first)[Len(Strip(first))] = ":"
      THEN Strip(Join(<<NL>>, Tail(lines)))
      ELSE cleaned_text

RECURSIVE CountHashes(_)
CountHashes(line) ==
  IF line # <<>> /\ Head(line) = "#" THEN 1 + CountHashes(Tail(line)) ELSE 0

\* One stripped, non-empty line of the "fix markdown" loop.
FixLine(line) ==
  IF Head(line) = "#"
  THEN LET hash_count == CountHashes(line)
           heading_text == Strip(LStripSet(Strip(SubSeq(line, hash_count + 1, Len(line))),
                                           {":", " "}))
           level == IF hash_count >= MaxHeadingLevel THEN MaxHeadingLevel ELSE hash_count
       IN  [i \in 1..level |-> "#"] \o <<" ">> \o heading_text
  ELSE line

FixLines(cleaned_text) ==
  LET lines == SplitLines(cleaned_text)
      stripped == [i \in 1..Len(lines) |-> Strip(lines[i])]
      kept == SelectSeq(stripped, LAMBDA line : line # <<>>)
  IN  Join(<<NL>>, [i \in 1..Len(kept) |-> FixLine(kept[i])])

_clean_ai_response(response_text) ==
  IF response_text = <<>> THEN response_text
  ELSE FixLines(DropIntroLine(RemovePhrases(Strip(response_text), 1)))

(***************************************************************************)
(* The dimensions of an image in the PDF (_add_images_to_story and         *)
(* _add_images_to_story_with_title).  The code divides floats; the model   *)
(* keeps a quotient as a fraction [num, den] in lowest terms.              *)
(***************************************************************************)
RECURSIVE GCD(_, _)
GCD(a, b) == IF b = 0 THEN a ELSE GCD(b, a % b)

Fraction(n, d) == [num |-> n \div GCD(n, d), den |-> d \div GCD(n, d)]
Whole(n) == [num |-> n, den |-> 1]

FractionLeq(x, y) == x.num * y.den <= y.num * x.den

\* aspect_ratio = img_width / img_height; aspect_ratio > 1 is
\* img_width > img_height; max_width / aspect_ratio is
\* max_width * img_height / img_width.
NewDimensions(img_width, img_height) ==
  IF img_width > max_width \/ img_height > max_height
  THEN IF img_width > img_height
       THEN [new_width |-> Whole(max_width),
             new_height |-> Fraction(max_width * img_height, img_width)]
       ELSE [new_height |-> Whole(max_height),
             new_width |-> Fraction(max_height * img_width, img_height)]
  ELSE [new_width |-> Whole(img_width), new_height |-> Whole(img_height)]

\* text.startswith(prefix)
StartsWith(text, prefix) ==
  Len(text) >= Len(prefix) /\ SubSeq(text, 1, Len(prefix)) = prefix

\* text.split(sep) for a separator of one or more characters: always at least
\* one (possibly empty) part, occurrences taken from the left.
RECURSIVE SplitOn(_, _)
SplitOn(text, sep) ==
  LET hits == { i \in 1..(Len(text) - Len(sep) + 1) :
                  SubSeq(text, i, i + Len(sep) - 1) = sep }
  IN  IF hits = {} THEN << text >>
      ELSE LET k == CHOOSE i \in hits : \A j \in hits : i <= j
           IN  << SubSeq(text, 1, k - 1) >>
                 \o SplitOn(SubSeq(text, k + Len(sep), Len(text)), sep)

(***************************************************************************)
(* The blocks of the two documents.  The PDF story is a sequence of        *)
(* flowables; the DOCX document is a sequence of paragraphs, a picture     *)
(* being a run inside a paragraph.  style names the paragraph style of the *)
(* PDF and the run format of the DOCX.                                     *)
(***************************************************************************)
Paragraph(text, style) == [kind |-> "Paragraph", text |-> text, style |-> style]
RLImage(image) == [kind |-> "Image", id |-> image.id]
Spacer(height) == [kind |-> "Spacer", height |-> height]
ChapterMarker(chapter_num) == [kind |-> "ChapterMarker", chapter_num |-> chapter_num]
PageBreak == [kind |-> "PageBreak"]

\* doc.add_paragraph(text) and doc.add_paragraph() with run.add_picture(...)
DocxParagraph(text, style) ==
  [kind |-> "Paragraph", text |-> text, style |-> style, picture |-> None]
DocxPicture(image) ==
  [kind |-> "Paragraph", text |-> <<>>, style |-> "center", picture |-> image.id]
DocxEmptyParagraph ==
  [kind |-> "Paragraph", text |-> <<>>, style |-> "center", picture |-> None]
DocxPageBreak == [kind |-> "PageBreak"]

(***************************************************************************)
(* _parse_markdown_paragraph and _add_docx_paragraph: the heading level of *)
(* a paragraph and its text without markdown symbols.                      *)
(***************************************************************************)
\* .replace('**', '').replace('*', '')
RemoveStars(text) == SelectSeq(text, LAMBDA t : t # "*")

\* The branch taken: 4 for '####', 3 for '###', 2 for '##', 1 for '#', 0 for
\* a regular paragraph.
MarkdownLevel(paragraph) ==
  LET hashes == CountHashes(Strip(paragraph))
  IN  IF hashes >= MaxHeadingLevel THEN MaxHeadingLevel ELSE hashes

MarkdownCleanText(paragraph) ==
  LET p == Strip(paragraph)
  IN  IF MarkdownLevel(paragraph) > 0
      THEN Strip(LStripSet(RemoveStars(Strip(LStripSet(p, {"#"}))), {":", " "}))
      ELSE Strip(LStripSet(Strip(LStripSet(RemoveStars(p), {"#"})), {":", " "}))

PdfStyleOfLevel(level) ==
  CASE level = 4 -> "CustomH4"
    [] level = 3 -> "CustomH3"
    [] level = 2 -> "CustomH2"
    [] level = 1 -> "CustomH1"
    [] OTHER -> "CustomBody"

DocxStyleOfLevel(level) ==
  CASE level = 4 -> "bold 0.15in"
    [] level = 3 -> "bold 0.17in"
    [] level = 2 -> "bold 0.2in"
    [] level = 1 -> "bold 0.25in"
    [] OTHER -> "plain"

\* story.append(Paragraph(*self._parse_markdown_paragraph(paragraph, styles)))
_parse_markdown_paragraph(paragraph) ==
  Paragraph(MarkdownCleanText(paragraph), PdfStyleOfLevel(MarkdownLevel(paragraph)))

_add_docx_paragraph(paragraph_text) ==
  DocxParagraph(MarkdownCleanText(paragraph_text), DocxStyleOfLevel(MarkdownLevel(paragraph_text)))

\* The paragraph a renderer emits for a line of markdown text.
TextBlock(renderer, paragraph) ==
  IF renderer = "pdf" THEN _parse_markdown_paragraph(paragraph)
  ELSE _add_docx_paragraph(paragraph)

(***************************************************************************)
(* Images and captions.  unreadable is the set of ids of the images whose  *)
(* bytes the renderer's imaging library cannot read: Image.open raises for *)
(* the PDF, run.add_picture raises for the DOCX.                           *)
(***************************************************************************)
FmtLabel(image) == IF image.type = "diagram" THEN "Diagram" ELSE "Figure"

\* f"Figure {chapter_num}.{img_idx + 1}: {slide_title}"
CaptionWithTitle(image, chapter_num, img_idx, slide_title) ==
  << FmtLabel(image), " ", ToString(chapter_num), ".", ToString(img_idx + 1), ":", " " >>
    \o slide_title

\* f"Figure {chapter_num}.{img_idx + 1}: Image from Slide {slide_number}"
CaptionFromSlide(image, chapter_num, img_idx, slide_number) ==
  << FmtLabel(image), " ", ToString(chapter_num), ".", ToString(img_idx + 1), ":", " " >>
    \o (IF image.type = "diagram" THEN <<"Flowchart/Diagram">> ELSE <<"Image">>)
    \o <<" ", "from", " ">> \o FmtSlide(slide_number)

\* One iteration of the loop over images, the caption text given.
PdfImageBlocks(image, caption, unreadable) ==
  IF image.id \in unreadable THEN <<>>
  ELSE << RLImage(image), Paragraph(caption, "ImageCaption"), Spacer(1) >>

DocxImageBlocks(image, caption, unreadable) ==
  IF image.id \in unreadable THEN << DocxEmptyParagraph >>
  ELSE << DocxPicture(image), DocxParagraph(caption, "caption") >>

ImageBlocks(renderer, image, caption, unreadable) ==
  IF renderer = "pdf" THEN PdfImageBlocks(image, caption, unreadable)
  ELSE DocxImageBlocks(image, caption, unreadable)

\* _add_images_to_story_with_title and _add_images_to_docx_with_title
AddImagesWithTitle(renderer, images, chapter_num, slide_title, unreadable) ==
  Flatten([k \in 1..Len(images) |->
             ImageBlocks(renderer, images[k],
                         CaptionWithTitle(images[k], chapter_num, k - 1, slide_title),
                         unreadable)])

\* _add_images_to_story and _add_images_to_docx
AddImages(renderer, images, chapter_num, slide_number, unreadable) ==
  Flatten([k \in 1..Len(images) |->
             ImageBlocks(renderer, images[k],
                         CaptionFromSlide(images[k], chapter_num, k - 1, slide_number),
                         unreadable)])

(***************************************************************************)
(* _process_grouped_chapter_content and its DOCX twin                      *)
(* _process_grouped_chapter_content_docx, which differ in the blocks they  *)
(* emit only.  images_by_slide, a dict, is the sequence of its items in    *)
(* insertion order.                                                        *)
(***************************************************************************)
HasSlide(images_by_slide, slide_num) ==
  \E k \in 1..Len(images_by_slide) : images_by_slide[k].slide_num = slide_num

ImagesOfSlide(images_by_slide, slide_num) ==
  LET k == CHOOSE j \in 1..Len(images_by_slide) : images_by_slide[j].slide_num = slide_num
  IN  images_by_slide[k].images

\* The loop "for img in all_images", from image k on.
RECURSIVE GroupImagesBySlide(_, _, _)
GroupImagesBySlide(all_images, k, images_by_slide) ==
  IF k > Len(all_images) THEN images_by_slide
  ELSE LET img == all_images[k]
           slide_num == img.slide_number
       IN  GroupImagesBySlide(all_images, k + 1,
             IF HasSlide(images_by_slide, slide_num)
             THEN [j \in 1..Len(images_by_slide) |->
                     IF images_by_slide[j].slide_num = slide_num
                     THEN [images_by_slide[j] EXCEPT !.images = Append(@, img)]
                     ELSE images_by_slide[j]]
             ELSE Append(images_by_slide, [slide_num |-> slide_num, images |-> << img >>]))

\* slide_titles.get(slide_num, default): the slide_title of the last image of
\* the slide.
SlideTitleGet(all_images, slide_num, default) ==
  LET of_slide == SelectSeq(all_images, LAMBDA img : img.slide_number = slide_num)
  IN  IF of_slide = <<>> THEN default ELSE of_slide[Len(of_slide)].slide_title

\* Mutant of DelSlide: the images of the slide stay in images_by_slide.
DelSlideKept(images_by_slide, slide_num) == images_by_slide

\* del images_by_slide[current_slide_num]
DelSlide(images_by_slide, slide_num) ==
  SelectSeq(images_by_slide, LAMBDA item : item.slide_num # slide_num)

\* The slide a section is taken to stand for; i is the section's index in
\* text_sections, counted from 0.  The result is tested for truth only, so
\* None is given as 0.
CurrentSlideNum(i, slide_numbers) ==
  IF i <= Len(slide_numbers)
  THEN (IF i > 0 THEN slide_numbers[i] ELSE slide_numbers[1])
  ELSE 0

\* line.startswith('(Image:') or line.startswith('(Diagram:')
IsImagePlaceholder(line) ==
  StartsWith(line, <<"(", "Image", ":">>) \/ StartsWith(line, <<"(", "Diagram", ":">>)

\* The loop "for line in lines[1:]".
SectionBodyBlocks(renderer, lines) ==
  LET stripped == [k \in 1..Len(lines) |-> Strip(lines[k])]
      kept == SelectSeq(stripped, LAMBDA line : line # <<>> /\ ~IsImagePlaceholder(line))
  IN  [k \in 1..Len(kept) |-> TextBlock(renderer, kept[k])]

\* The loop over text_sections from the section with index i (from 0) on;
\* gives the blocks emitted and what is left in images_by_slide.
RECURSIVE ProcessSections(_, _, _, _, _, _, _)
ProcessSections(renderer, text_sections, i, content, chapter_num, unreadable, images_by_slide) ==
  IF i >= Len(text_sections) THEN [blocks |-> <<>>, images_by_slide |-> images_by_slide]
  ELSE IF Strip(text_sections[i + 1]) = <<>>
  THEN ProcessSections(renderer, text_sections, i + 1, content, chapter_num, unreadable,
                       images_by_slide)
  ELSE LET lines == SplitLines(Strip(text_sections[i + 1]))
           slide_heading == Strip(lines[1])
           current_slide_num == CurrentSlideNum(i, content.slide_numbers)
           placed == current_slide_num # 0 /\ HasSlide(images_by_slide, current_slide_num)
           image_blocks ==
             IF placed
             THEN AddImagesWithTitle(renderer, ImagesOfSlide(images_by_slide, current_slide_num),
                    chapter_num,
                    SlideTitleGet(content.images, current_slide_num, slide_heading),
                    unreadable)
             ELSE <<>>
           rest == ProcessSections(renderer, text_sections, i + 1, content, chapter_num,
                     unreadable,
                     IF placed THEN DelSlide(images_by_slide, current_slide_num)
                     ELSE images_by_slide)
       IN  [blocks |-> << TextBlock(renderer, FmtHeading2(slide_heading)) >>
                         \o image_blocks
                         \o SectionBodyBlocks(renderer, Tail(lines))
                         \o rest.blocks,
            images_by_slide |-> rest.images_by_slide]

\* "Add any remaining images that weren't processed"
RemainingImages(renderer, content, chapter_num, unreadable, images_by_slide) ==
  Flatten([k \in 1..Len(images_by_slide) |->
             AddImagesWithTitle(renderer, images_by_slide[k].images, chapter_num,
               SlideTitleGet(content.images, images_by_slide[k].slide_num,
                             FmtSlide(images_by_slide[k].slide_num)),
               unreadable)])

ProcessGroupedChapter(renderer, content, chapter_num, unreadable) ==
  LET text_sections == SplitOn(content.text, <<"#", "#", " ">>)
      sections == ProcessSections(renderer, text_sections, 0, content, chapter_num, unreadable,
                    GroupImagesBySlide(content.images, 1, <<>>))
  IN  sections.blocks
        \o RemainingImages(renderer, content, chapter_num, unreadable, sections.images_by_slide)

_process_grouped_chapter_content(content, chapter_num, unreadable) ==
  ProcessGroupedChapter("pdf", content, chapter_num, unreadable)

_process_grouped_chapter_content_docx(content, chapter_num, unreadable) ==
  ProcessGroupedChapter("docx", content, chapter_num, unreadable)

(***************************************************************************)
(* _process_single_slide_content and _process_single_slide_content_docx:   *)
(* the paragraphs of the text, then the images.                            *)
(***************************************************************************)
SingleSlideParagraphs(renderer, content_text) ==
  LET parts == SplitOn(content_text, <<NL, NL>>)
      stripped == [k \in 1..Len(parts) |-> Strip(parts[k])]
      paragraphs == SelectSeq(stripped, LAMBDA q : q # <<>>)
  IN  [k \in 1..Len(paragraphs) |-> TextBlock(renderer, paragraphs[k])]

_process_single_slide_content(content_text, content_images, chapter_num, slide_number, unreadable) ==
  SingleSlideParagraphs("pdf", content_text)
    \o (IF content_images # <<>>
        THEN << Spacer(2) >> \o AddImages("pdf", content_images, chapter_num, slide_number,
                                          unreadable)
        ELSE <<>>)

_process_single_slide_content_docx(content_text, content_images, chapter_num, unreadable) ==
  SingleSlideParagraphs("docx", content_text)
    \o (IF content_images # <<>>
        THEN AddImages("docx", content_images, chapter_num, content_images[1].slide_number,
                       unreadable)
        ELSE <<>>)

(***************************************************************************)
(* enhance_content_with_gemini.  call is what self.model.generate_content  *)
(* does when it is called: [kind |-> "text", text |-> t] returns t,        *)
(* [kind |-> "raise"] raises.  The result says whether an exception        *)
(* reached the caller and, if not, the value returned.                     *)
(***************************************************************************)
Returned(v) == [raised |-> FALSE, value |-> v]
Raised == [raised |-> TRUE, value |-> <<>>]

IsGrouped(slide_content) == "slide_numbers" \in DOMAIN slide_content

\* f"{title}\n\n" + '\n\n'.join(content)
FallbackText(slide_content) ==
  slide_content.title \o <<NL, NL>> \o Join(<<NL, NL>>, slide_content.content)

EnhancedContent(slide_content, text, chapter_number) ==
  IF IsGrouped(slide_content)
  THEN [text |-> text,
        images |-> slide_content.images,
        slide_numbers |-> slide_content.slide_numbers,
        chapter_number |-> chapter_number]
  ELSE [text |-> text,
        images |-> slide_content.images,
        slide_number |-> slide_content.slide_number,
        chapter_number |-> chapter_number]

\* Mutant of EnhanceOnError: the exception is not caught.
EnhanceOnErrorUncaught(slide_content, chapter_number) == Raised

\* The except branch: the exception is logged and the fallback returned.
EnhanceOnError(slide_content, chapter_number) ==
  Returned(EnhancedContent(slide_content, FallbackText(slide_content), chapter_number))

enhance_content_with_gemini(slide_content, chapter_number, has_model, call) ==
  IF ~has_model
  THEN Returned(EnhancedContent(slide_content, FallbackText(slide_content), chapter_number))
  ELSE IF call.kind = "raise"
       THEN EnhanceOnError(slide_content, chapter_number)
       ELSE Returned(EnhancedContent(slide_content, _clean_ai_response(call.text),
                                     chapter_number))

(***************************************************************************)
(* create_pdf_ebook: the story handed to doc.build.  Spacer heights are in *)
(* tenths of an inch.                                                      *)
(***************************************************************************)
ebook_title == <<"My", " ", "eBook">>
ebook_author == <<"Anonymous">>

\* datetime.now().strftime('%B %d, %Y')
GeneratedOn == <<"Generated", " ", "on", " ", "November", " ", "06", ",", " ", "2026">>

PdfTitlePage ==
  << Paragraph(ebook_title, "CustomTitle"), Spacer(3),
     Paragraph(<<"by", " ">> \o ebook_author, "AuthorStyle"), Spacer(5),
     Paragraph(GeneratedOn, "Normal"), PageBreak >>

\* chapter_title: the first line of the text when it is shorter than 100
\* characters and does not start with a space, else f"Chapter {i + 1}".
PdfChapterTitle(content_text, i) ==
  LET lines == SplitLines(content_text)
  IN  IF StrLen(lines[1]) < ChapterTitleMaxLen /\ ~StartsWith(lines[1], <<" ">>)
      THEN lines[1] ELSE FmtChapter(i + 1)

\* The dispatch on 'slide_numbers' in content.
PdfChapterBody(content, i, unreadable) ==
  IF IsGrouped(content)
  THEN _process_grouped_chapter_content(content, i + 1, unreadable)
  ELSE _process_single_slide_content(content.text, content.images, i + 1,
         content.slide_number, unreadable)

\* Mutant of PdfChapter: the marker is appended after the chapter title.
PdfChapterMarkerAfterTitle(content, i, unreadable) ==
  (IF i > 0 THEN << Spacer(3) >> ELSE <<>>)
    \o << Paragraph(PdfChapterTitle(content.text, i), "ChapterTitle"),
          ChapterMarker(content.chapter_number) >>
    \o PdfChapterBody(content, i, unreadable)
    \o << Spacer(1) >>

\* One iteration of "for i, content in enumerate(enhanced_content)".
PdfChapter(content, i, unreadable) ==
  (IF i > 0 THEN << Spacer(3) >> ELSE <<>>)
    \o << ChapterMarker(content.chapter_number),
          Paragraph(PdfChapterTitle(content.text, i), "ChapterTitle") >>
    \o PdfChapterBody(content, i, unreadable)
    \o << Spacer(1) >>

create_pdf_ebook(contents, unreadable) ==
  PdfTitlePage
    \o Flatten([k \in 1..Len(contents) |-> PdfChapter(contents[k], k - 1, unreadable)])

(***************************************************************************)
(* create_docx_ebook: the paragraphs of the document.                      *)
(***************************************************************************)
DocxTitlePage ==
  << DocxParagraph(ebook_title, "bold 0.3in center"),
     DocxParagraph(<<"by", " ">> \o ebook_author, "0.2in center"),
     DocxParagraph(GeneratedOn, "center"), DocxPageBreak >>

DocxChapter(content, unreadable) ==
  IF IsGrouped(content)
  THEN _process_grouped_chapter_content_docx(content, content.chapter_number, unreadable)
  ELSE _process_single_slide_content_docx(content.text, content.images,
         content.chapter_number, unreadable)

create_docx_ebook(contents, unreadable) ==
  DocxTitlePage
    \o Flatten([k \in 1..Len(contents) |-> DocxChapter(contents[k], unreadable)])

(***************************************************************************)
(* Inputs.                                                                 *)
(***************************************************************************)
Automatic == "Automatic (Equal Groups)"
CustomRanges == "Custom Ranges"
OnePerSlide == "One Slide Per Chapter"

\* (start, end) pairs as typed by the user: ranges that overlap each other,
\* that follow each other, one slide, the whole deck, a range beyond the deck
\* and a range with start > end.
RangePairs ==
  { <<1, 1>>, <<1, 2>>, <<2, 3>>, <<3, MaxSlides>>, <<1, MaxSlides>>,
    <<MaxSlides + 1, MaxSlides + 2>>, <<2, 1>> }

RangeLists == UNION { [1..n -> RangePairs] : n \in 1..MaxRanges }

\* The range lists of the whole-pipeline specification: a range inside the
\* deck and a range beyond it, in any order and number.
PipelineRangeLists ==
  UNION { [1..n -> { <<1, 2>>, <<MaxSlides + 1, MaxSlides + 2>> }] : n \in 1..MaxRanges }

\* Texts the text generator may return.
Responses ==
  { <<"Of", " ", "course", ".", " ", "Here", " ", "is", " ", "a", " ", "comprehensive",
      " ", "eBook", " ", "chapter", " ", "on", " ", "Topic", NL, NL,
      "#", "#", ":", " ", "Intro", NL, "Body", " ", "text">> }

\* Lines the text generator may write at the start of a response: two
\* sentences that begin with an unwanted phrase and go on to the end of the
\* line, a short line that ends with a colon, a heading with a stray colon,
\* a line of body text and an empty line.
PreambleLines ==
  { <<"Of", " ", "course", ".", " ", "Here", " ", "is", " ", "a", " ", "comprehensive",
      " ", "eBook", " ", "chapter", " ", "on", " ", "Topic">>,
    <<"Here", " ", "is", " ", "the", " ", "enhanced", " ", "content", " ", "based", " ",
      "on", " ", "the", " ", "slide", " ", "content">> }

IntroLine == <<"Intro", ":">>
HeadingLine == <<"#", "#", ":", " ", "Intro">>
BodyLine == <<"Body", " ", "text">>

ResponseLines == PreambleLines \cup { IntroLine, HeadingLine, BodyLine, <<>> }

\* The texts of at most MaxLines such lines.
ResponseTexts ==
  { Join(<<NL>>, lines) : lines \in UNION { [1..n -> ResponseLines] : n \in 0..MaxLines } }

\* Lines of markdown the text generator may write: headings of one to five
\* markers with no space, two spaces, a colon, a colon between spaces and a
\* colon after a tab behind the markers; a heading behind a space that ends
\* with a colon; a line of body text between spaces; an empty line.
MarkupLines ==
  { <<"#", "Title">>,
    <<"#", "#", " ", " ", "Title">>,
    <<"#", "#", "#", ":", " ", "Title">>,
    <<"#", "#", "#", "#", " ", ":", " ", "Title", " ">>,
    <<"#", "#", "#", "#", "#", " ", "Title">>,
    <<"#", "#", ":", "\t", ":", "Title">>,
    <<" ", "#", "#", " ", "Title", ":">>,
    <<" ", "Body", " ", "text", " ">>,
    <<>> }

\* The texts of at most MaxLines such lines.
MarkupTexts ==
  { Join(<<NL>>, lines) : lines \in UNION { [1..n -> MarkupLines] : n \in 0..MaxLines } }

\* The decks of MaxSlides slides.
Decks ==
  { [n \in 1..MaxSlides |-> ExtractSlideRecord(n, shapes[n])] :
      shapes \in [1..MaxSlides -> SlideShapes(MaxSlides)] }

\* What the text generator may write for a chapter, by the layout of the
\* text: one "## " section per slide of the chapter; a title line before the
\* sections; a section less than the chapter has slides; a section more; no
\* heading at all; sections with a "### " subsection each; one section, for
\* the first slide, that holds the body lines of all slides.  The heading
\* and the body line of a slide name the slide.
ResponseLayouts == {"sections", "titled", "fewer", "more", "plain", "subsections", "first"}

SectionHeading(n) == <<"#", "#", " ", "Section", " ", ToString(n)>>
SectionBody(n) == <<"About", " ", "slide", " ", ToString(n)>>
SubsectionHeading(n) == <<"#", "#", "#", " ", "Detail", " ", ToString(n)>>

ResponseFor(chapter, layout) ==
  LET slide_nums == chapter.slide_numbers
      sections(nums) ==
        Flatten([k \in 1..Len(nums) |-> << SectionHeading(nums[k]), SectionBody(nums[k]) >>])
  IN  Join(<<NL>>,
        CASE layout = "sections" -> sections(slide_nums)
          [] layout = "titled" ->
               << <<"Chapter", " ", ToString(chapter.chapter_number), ":", " ", "Topic">> >>
                 \o sections(slide_nums)
          [] layout = "fewer" ->
               sections(SubSeq(slide_nums, 1, Len(slide_nums) - 1))
                 \o << SectionBody(slide_nums[Len(slide_nums)]) >>
          [] layout = "more" ->
               sections(slide_nums) \o << <<"#", "#", " ", "Summary">>, <<"Closing">> >>
          [] layout = "plain" ->
               [k \in 1..Len(slide_nums) |-> SectionBody(slide_nums[k])]
          [] layout = "first" ->
               << SectionHeading(slide_nums[1]) >>
                 \o [k \in 1..Len(slide_nums) |-> SectionBody(slide_nums[k])]
          [] OTHER ->
               Flatten([k \in 1..Len(slide_nums) |->
                          << SectionHeading(slide_nums[k]), SubsectionHeading(slide_nums[k]),
                             SectionBody(slide_nums[k]) >>]))

\* What the text generator does for every chapter of a book: it raises, or
\* it writes a text of one layout.
GeneratorBehaviours == {"raise"} \cup ResponseLayouts

GeneratorCall(chapter, behaviour) ==
  IF behaviour = "raise" THEN [kind |-> "raise"]
  ELSE [kind |-> "text", text |-> ResponseFor(chapter, behaviour)]

\* The bytes of every image of a deck can be read, or those of one image
\* cannot: the first or the last image of the deck.
ImageIdsOf(deck) ==
  Flatten([n \in 1..Len(deck) |-> [k \in 1..Len(deck[n].images) |-> deck[n].images[k].id]])

UnreadableSets(deck) ==
  LET ids == ImageIdsOf(deck)
  IN  { {} } \cup (IF ids = <<>> THEN {} ELSE { { ids[1] }, { ids[Len(ids)] } })

\* The range lists of the rendering specification: the slides from 2 on; a
\* range beyond the deck and then the first two slides.
RenderRangeLists ==
  { << <<2, MaxSlides>> >>,
    << <<MaxSlides + 1, MaxSlides + 1>>, <<1, 2>> >> }

\* Pixel sizes of a picture: the multiples of 100 up to 100 * MaxSide and
\* the sizes one pixel beyond the box.
ImageSides == { 100 * i : i \in 1..MaxSide } \cup { max_width + 1, max_height + 1 }

(***************************************************************************)
(* State.                                                                  *)
(***************************************************************************)
VARIABLES
  pc,                 \* the stage main is at
  model,              \* converter.model is set (a text generator is configured)
  slides_content,     \* the slide records extracted so far
  chapter_method,     \* the sidebar's chapter organization method
  slides_per_chapter, \* the slider value
  custom_ranges,      \* the parsed range list
  chapters,           \* the chapters main built
  enhanced_content,   \* the enhanced chapters appended so far
  calls,              \* what each enhancement did: "no_model", "ok" or "failed"
  raised,             \* an exception reached main
  response_text,      \* _clean_ai_response: the text it is called with
  cleaned,            \* _clean_ai_response: what it returned, call after call
  img_size,           \* pil_image.size of the image being placed: <<width, height>>
  new_size,           \* the dimensions the image is given in the PDF
  output_format,      \* the sidebar's output format: "PDF", "DOCX" or "Both"
  unreadable,         \* the ids of the images whose bytes cannot be read
  story,              \* the PDF story create_pdf_ebook built (None before)
  document,           \* the DOCX paragraphs create_docx_ebook built (None before)
  canvas_doc_has_set_current_chapter,
                      \* hasattr(canvas._doc, 'set_current_chapter') in the PDF library
  current_chapter,    \* doc.current_chapter of the CustomDocTemplate
  flowables,          \* doc.build: the flowables not handled yet
  pages,              \* doc.build: the footer drawn on every page begun so far (none before)
  frame_empty         \* doc.build: nothing is drawn in the frame of the page yet

pipeline_vars ==
  << pc, model, slides_content, chapter_method, slides_per_chapter, custom_ranges,
     chapters, enhanced_content, calls, raised >>

clean_vars == << response_text, cleaned >>

\* The variables of the functions that are checked on their own.
resize_vars == << img_size, new_size >>

render_vars == << output_format, unreadable, story, document >>

build_vars ==
  << canvas_doc_has_set_current_chapter, current_chapter, flowables, pages, frame_empty >>

function_vars == << clean_vars, resize_vars, render_vars, build_vars >>

vars == << pipeline_vars, function_vars >>

\* No call of _clean_ai_response on its own is under way.
CleanIdle == response_text = None /\ cleaned = <<>>

\* No image is being resized on its own.
ResizeIdle == img_size = None /\ new_size = None

\* No document is being generated.
RenderIdle ==
  /\ output_format = None
  /\ unreadable = {}
  /\ story = None
  /\ document = None

\* No story is being built into a PDF: the template is as constructed
\* (self.current_chapter = 1).
BuildIdle ==
  /\ canvas_doc_has_set_current_chapter = FALSE
  /\ current_chapter = 1
  /\ flowables = None
  /\ pages = <<>>
  /\ frame_empty = TRUE

FunctionsIdle == CleanIdle /\ ResizeIdle /\ RenderIdle /\ BuildIdle

Init ==
  /\ pc = "extract"
  /\ model \in BOOLEAN
  /\ slides_content = <<>>
  /\ chapter_method = ""
  /\ slides_per_chapter = None
  /\ custom_ranges = None
  /\ chapters = <<>>
  /\ enhanced_content = <<>>
  /\ calls = <<>>
  /\ raised = FALSE
  /\ FunctionsIdle

\* extract_ppt_content: one iteration of the loop over presentation.slides.
ExtractSlide ==
  /\ pc = "extract"
  /\ Len(slides_content) < MaxSlides
  /\ \E shapes \in SlideShapes(Len(slides_content) + 1) :
       slides_content' =
         Append(slides_content, ExtractSlideRecord(Len(slides_content) + 1, shapes))
  /\ UNCHANGED << pc, model, chapter_method, slides_per_chapter, custom_ranges, chapters,
                  enhanced_content, calls, raised,
                  function_vars >>

\* The same iteration for a slide of any of the shape lists of the
\* extraction specification.
ExtractAnySlide ==
  /\ pc = "extract"
  /\ Len(slides_content) < MaxSlides
  /\ \E shapes \in ExtractShapeLists :
       slides_content' =
         Append(slides_content, ExtractSlideRecord(Len(slides_content) + 1, shapes))
  /\ UNCHANGED << pc, model, chapter_method, slides_per_chapter, custom_ranges, chapters,
                  enhanced_content, calls, raised,
                  function_vars >>

\* extract_ppt_content returns; main goes on only "if slides_content".
ExtractReturn ==
  /\ pc = "extract"
  /\ pc' = IF slides_content # <<>> THEN "group" ELSE "done"
  /\ UNCHANGED << model, slides_content, chapter_method, slides_per_chapter, custom_ranges,
                  chapters, enhanced_content, calls, raised,
                  function_vars >>

\* main: "Automatic (Equal Groups)".
GroupAutomatic ==
  /\ pc = "group"
  /\ \E k \in 1..MaxPerChapter :
       /\ slides_per_chapter' = k
       /\ chapters' = _group_slides_into_chapters(slides_content, k)
  /\ chapter_method' = Automatic
  /\ custom_ranges' = None
  /\ pc' = "enhance"
  /\ UNCHANGED << model, slides_content, enhanced_content, calls, raised,
                  function_vars >>

\* main: "Custom Ranges" with a non-empty parsed range list out of `lists`.
GroupCustomRangesFrom(lists) ==
  /\ pc = "group"
  /\ \E ranges \in lists :
       /\ custom_ranges' = ranges
       /\ chapters' = _create_chapters_from_custom_ranges(slides_content, ranges)
  /\ chapter_method' = CustomRanges
  /\ slides_per_chapter' = None
  /\ pc' = "enhance"
  /\ UNCHANGED << model, slides_content, enhanced_content, calls, raised,
                  function_vars >>

GroupCustomRanges == GroupCustomRangesFrom(RangeLists)

GroupCustomRangesPipeline == GroupCustomRangesFrom(PipelineRangeLists)

\* main: "One Slide Per Chapter".
GroupOnePerSlide ==
  /\ pc = "group"
  /\ chapters' = OneSlidePerChapter(slides_content)
  /\ chapter_method' = OnePerSlide
  /\ slides_per_chapter' = 1
  /\ custom_ranges' = None
  /\ pc' = "enhance"
  /\ UNCHANGED << model, slides_content, enhanced_content, calls, raised,
                  function_vars >>

\* Mutant of EnhanceWith: a failed call also downgrades the chapters enhanced
\* before it to their fallback text.
EnhanceWithFailureSpreading(call, outcome) ==
  LET chapter == chapters[Len(enhanced_content) + 1]
      chapter_num == chapter.chapter_number
      result == enhance_content_with_gemini(chapter, chapter_num, model, call)
      before == IF outcome = "failed"
                THEN [i \in 1..Len(enhanced_content) |->
                        EnhancedContent(chapters[i], FallbackText(chapters[i]),
                                        chapters[i].chapter_number)]
                ELSE enhanced_content
  IN  /\ raised' = result.raised
      /\ enhanced_content' = Append(before, result.value)
      /\ calls' = Append(calls, [chapter_number |-> chapter_num, outcome |-> outcome])
      /\ pc' = pc
      /\ UNCHANGED << model, slides_content, chapter_method, slides_per_chapter,
                      custom_ranges, chapters, function_vars >>

\* One iteration of main's enhancement loop, for the next chapter, when the
\* text generator does `call`.
EnhanceWith(call, outcome) ==
  LET chapter == chapters[Len(enhanced_content) + 1]
      chapter_num == chapter.chapter_number
      result == enhance_content_with_gemini(chapter, chapter_num, model, call)
  IN  /\ raised' = result.raised
      /\ enhanced_content' = IF result.raised THEN enhanced_content
                             ELSE Append(enhanced_content, result.value)
      /\ calls' = Append(calls, [chapter_number |-> chapter_num, outcome |-> outcome])
      /\ pc' = IF result.raised THEN "done" ELSE pc
      /\ UNCHANGED << model, slides_content, chapter_method, slides_per_chapter,
                      custom_ranges, chapters,
                  function_vars >>

EnhanceNoModel ==
  /\ pc = "enhance"
  /\ Len(enhanced_content) < Len(chapters)
  /\ ~model
  /\ EnhanceWith([kind |-> "none"], "no_model")

EnhanceOk ==
  /\ pc = "enhance"
  /\ Len(enhanced_content) < Len(chapters)
  /\ model
  /\ \E r \in Responses : EnhanceWith([kind |-> "text", text |-> r], "ok")

EnhanceFail ==
  /\ pc = "enhance"
  /\ Len(enhanced_content) < Len(chapters)
  /\ model
  /\ EnhanceWith([kind |-> "raise"], "failed")

\* The enhancement loop ends; main goes on to generate the documents.
EnhanceDone ==
  /\ pc = "enhance"
  /\ Len(enhanced_content) = Len(chapters)
  /\ pc' = "generate"
  /\ UNCHANGED << model, slides_content, chapter_method, slides_per_chapter, custom_ranges,
                  chapters, enhanced_content, calls, raised,
                  function_vars >>

\* The whole conversion: extraction, grouping, enhancement.
Next ==
  \/ ExtractSlide
  \/ ExtractReturn
  \/ GroupAutomatic
  \/ GroupCustomRangesPipeline
  \/ GroupOnePerSlide
  \/ EnhanceNoModel
  \/ EnhanceOk
  \/ EnhanceFail
  \/ EnhanceDone

Spec == Init /\ [][Next]_vars

\* Extraction and grouping alone, over every range list of RangeLists.
NextGroup ==
  \/ ExtractSlide
  \/ ExtractReturn
  \/ GroupAutomatic
  \/ GroupCustomRanges
  \/ GroupOnePerSlide

SpecGroup == Init /\ [][NextGroup]_vars

(***************************************************************************)
(* The extraction on its own, for slides of more shape lists.              *)
(***************************************************************************)
NextExtract ==
  \/ ExtractAnySlide
  \/ ExtractReturn

SpecExtract == Init /\ [][NextExtract]_vars

(***************************************************************************)
(* _clean_ai_response on its own: called with a text, then called again    *)
(* with what it returned.                                                  *)
(***************************************************************************)
InitClean ==
  /\ pc = "done"
  /\ model = TRUE
  /\ slides_content = <<>>
  /\ chapter_method = ""
  /\ slides_per_chapter = None
  /\ custom_ranges = None
  /\ chapters = <<>>
  /\ enhanced_content = <<>>
  /\ calls = <<>>
  /\ raised = FALSE
  /\ response_text \in ResponseTexts \cup MarkupTexts
  /\ cleaned = <<>>
  /\ ResizeIdle
  /\ RenderIdle
  /\ BuildIdle

\* cleaned_text = self._clean_ai_response(response.text)
Clean ==
  /\ cleaned = <<>>
  /\ cleaned' = << _clean_ai_response(response_text) >>
  /\ UNCHANGED << pipeline_vars, response_text, resize_vars, render_vars, build_vars >>

\* The function called with its own result.
CleanAgain ==
  /\ Len(cleaned) = 1
  /\ cleaned' = Append(cleaned, _clean_ai_response(cleaned[1]))
  /\ UNCHANGED << pipeline_vars, response_text, resize_vars, render_vars, build_vars >>

NextClean ==
  \/ Clean
  \/ CleanAgain

SpecClean == InitClean /\ [][NextClean]_vars

(***************************************************************************)
(* The resize computation on its own, for an image of every size.          *)
(***************************************************************************)
InitResize ==
  /\ pc = "done"
  /\ model = TRUE
  /\ slides_content = <<>>
  /\ chapter_method = ""
  /\ slides_per_chapter = None
  /\ custom_ranges = None
  /\ chapters = <<>>
  /\ enhanced_content = <<>>
  /\ calls = <<>>
  /\ raised = FALSE
  /\ CleanIdle
  /\ RenderIdle
  /\ BuildIdle
  /\ img_size \in ImageSides \X ImageSides
  /\ new_size = None

\* img_width, img_height = pil_image.size ... RLImage(img_bytes, width=new_width,
\* height=new_height)
Resize ==
  /\ img_size # None
  /\ new_size = None
  /\ new_size' = NewDimensions(img_size[1], img_size[2])
  /\ UNCHANGED << pipeline_vars, clean_vars, render_vars, build_vars, img_size >>

NextResize == Resize

SpecResize == InitResize /\ [][NextResize]_vars

(***************************************************************************)
(* Document generation.  The initial states are the states main is in      *)
(* when the enhancement loop has ended: a deck, the chapters one of the    *)
(* policies made of it and the enhanced content the loop built when the    *)
(* text generator behaved in one way for every chapter.                    *)
(***************************************************************************)
EnhancedBy(chaps, behaviour) ==
  [i \in 1..Len(chaps) |->
     enhance_content_with_gemini(chaps[i], chaps[i].chapter_number, TRUE,
                                 GeneratorCall(chaps[i], behaviour)).value]

CallsBy(chaps, behaviour) ==
  [i \in 1..Len(chaps) |->
     [chapter_number |-> chaps[i].chapter_number,
      outcome |-> IF behaviour = "raise" THEN "failed" ELSE "ok"]]

InitRender ==
  /\ pc = "generate"
  /\ model = TRUE
  /\ raised = FALSE
  /\ slides_content \in Decks
  /\ \/ \E k \in 1..MaxPerChapter :
          /\ chapter_method = Automatic
          /\ slides_per_chapter = k
          /\ custom_ranges = None
          /\ chapters = _group_slides_into_chapters(slides_content, k)
     \/ /\ chapter_method = OnePerSlide
        /\ slides_per_chapter = 1
        /\ custom_ranges = None
        /\ chapters = OneSlidePerChapter(slides_content)
     \/ \E ranges \in RenderRangeLists :
          /\ chapter_method = CustomRanges
          /\ slides_per_chapter = None
          /\ custom_ranges = ranges
          /\ chapters = _create_chapters_from_custom_ranges(slides_content, ranges)
  /\ \E behaviour \in GeneratorBehaviours :
       /\ enhanced_content = EnhancedBy(chapters, behaviour)
       /\ calls = CallsBy(chapters, behaviour)
  /\ CleanIdle
  /\ ResizeIdle
  /\ output_format \in {"PDF", "DOCX", "Both"}
  /\ unreadable \in UnreadableSets(slides_content)
  /\ story = None
  /\ document = None
  /\ BuildIdle

\* main: pdf_buffer = converter.create_pdf_ebook(enhanced_content, ...)
CreatePdf ==
  /\ pc = "generate"
  /\ output_format \in {"PDF", "Both"}
  /\ story = None
  /\ story' = create_pdf_ebook(enhanced_content, unreadable)
  /\ pc' = IF output_format = "PDF" THEN "done" ELSE pc
  /\ UNCHANGED << model, slides_content, chapter_method, slides_per_chapter, custom_ranges,
                  chapters, enhanced_content, calls, raised, clean_vars, resize_vars,
                  output_format, unreadable, document, build_vars >>

\* main: docx_buffer = converter.create_docx_ebook(enhanced_content, ...)
CreateDocx ==
  /\ pc = "generate"
  /\ output_format \in {"DOCX", "Both"}
  /\ output_format = "Both" => story # None
  /\ document = None
  /\ document' = create_docx_ebook(enhanced_content, unreadable)
  /\ pc' = "done"
  /\ UNCHANGED << model, slides_content, chapter_method, slides_per_chapter, custom_ranges,
                  chapters, enhanced_content, calls, raised, clean_vars, resize_vars,
                  output_format, unreadable, story, build_vars >>

NextRender ==
  \/ CreatePdf
  \/ CreateDocx

SpecRender == InitRender /\ [][NextRender]_vars

(***************************************************************************)
(* The build of the PDF: doc.build(story) of a CustomDocTemplate.  The     *)
(* template hands the flowables of the story to the frame of the page one  *)
(* by one; a flowable that is added to the frame is drawn with drawOn; a   *)
(* PageBreak, or a flowable the frame has no room for, ends the page, and  *)
(* every page that begins is decorated by the onPage callback of the page  *)
(* template.  How much room a flowable needs is not modelled: any flowable *)
(* with a height may be the one that does not fit, on a page that has      *)
(* something drawn on it, up to MaxPages pages.                            *)
(***************************************************************************)
\* The decks whose slides all hold the same shapes.
BuildDecks ==
  { [n \in 1..MaxSlides |-> ExtractSlideRecord(n, shapes)] : shapes \in SlideShapes(MaxSlides) }

BuildBehaviours == {"raise", "sections"}

\* _draw_header_footer: the footer of a page, chapter_text at the left and
\* page_num at the right.
Footer(doc_current_chapter, doc_page) ==
  [chapter_text |-> <<"Chapter", " ", ToString(doc_current_chapter)>>,
   page_num |-> <<"Page", " ", ToString(doc_page)>>]

\* The template begins a page: doc.page is the number of the new page, and
\* onPage draws its header and footer.
PageBegun(drawn, doc_current_chapter) ==
  Append(drawn, Footer(doc_current_chapter, Len(drawn) + 1))

\* ChapterMarker.wrap returns (0, 0): the marker needs no room.
TakesSpace(flowable) == flowable.kind \notin {"ChapterMarker", "PageBreak"}

\* ChapterMarker.drawOn: set_current_chapter is called when canvas._doc has
\* such an attribute; the value stays as it is when it has not.
MarkerDrawOn(has_setter, chapter_num, doc_current_chapter) ==
  IF has_setter THEN chapter_num ELSE doc_current_chapter

InitBuild ==
  /\ pc = "generate"
  /\ model = TRUE
  /\ raised = FALSE
  /\ slides_content \in BuildDecks
  /\ \/ \E k \in 1..MaxPerChapter :
          /\ chapter_method = Automatic
          /\ slides_per_chapter = k
          /\ custom_ranges = None
          /\ chapters = _group_slides_into_chapters(slides_content, k)
     \/ /\ chapter_method = OnePerSlide
        /\ slides_per_chapter = 1
        /\ custom_ranges = None
        /\ chapters = OneSlidePerChapter(slides_content)
  /\ \E behaviour \in BuildBehaviours :
       /\ enhanced_content = EnhancedBy(chapters, behaviour)
       /\ calls = CallsBy(chapters, behaviour)
  /\ CleanIdle
  /\ ResizeIdle
  /\ output_format = "PDF"
  /\ unreadable = {}
  /\ story = None
  /\ document = None
  /\ canvas_doc_has_set_current_chapter \in BOOLEAN
  /\ current_chapter = 1
  /\ flowables = None
  /\ pages = <<>>
  /\ frame_empty = TRUE

\* doc.build(story): the first page begins.
Build ==
  /\ story # None
  /\ pages = <<>>
  /\ flowables' = story
  /\ pages' = PageBegun(pages, current_chapter)
  /\ frame_empty' = TRUE
  /\ UNCHANGED << pipeline_vars, clean_vars, resize_vars, render_vars,
                  canvas_doc_has_set_current_chapter, current_chapter >>

\* A Paragraph, an Image or a Spacer is added to the frame and drawn.
DrawFlowable ==
  /\ pages # <<>>
  /\ flowables # <<>>
  /\ TakesSpace(Head(flowables))
  /\ flowables' = Tail(flowables)
  /\ frame_empty' = FALSE
  /\ UNCHANGED << pipeline_vars, clean_vars, resize_vars, render_vars,
                  canvas_doc_has_set_current_chapter, current_chapter, pages >>

\* A ChapterMarker is added to the frame: its drawOn is called.
DrawChapterMarker ==
  /\ pages # <<>>
  /\ flowables # <<>>
  /\ Head(flowables).kind = "ChapterMarker"
  /\ flowables' = Tail(flowables)
  /\ current_chapter' = MarkerDrawOn(canvas_doc_has_set_current_chapter,
                                     Head(flowables).chapter_num, current_chapter)
  /\ UNCHANGED << pipeline_vars, clean_vars, resize_vars, render_vars,
                  canvas_doc_has_set_current_chapter, pages, frame_empty >>

\* A PageBreak ends the page and the next page begins.
HandlePageBreak ==
  /\ pages # <<>>
  /\ flowables # <<>>
  /\ Head(flowables).kind = "PageBreak"
  /\ flowables' = Tail(flowables)
  /\ pages' = PageBegun(pages, current_chapter)
  /\ frame_empty' = TRUE
  /\ UNCHANGED << pipeline_vars, clean_vars, resize_vars, render_vars,
                  canvas_doc_has_set_current_chapter, current_chapter >>

\* The frame has no room for the next flowable: the page ends, the next
\* page begins and the flowable waits for it.
FrameFull ==
  /\ pages # <<>>
  /\ flowables # <<>>
  /\ TakesSpace(Head(flowables))
  /\ ~frame_empty
  /\ Len(pages) < MaxPages
  /\ pages' = PageBegun(pages, current_chapter)
  /\ frame_empty' = TRUE
  /\ UNCHANGED << pipeline_vars, clean_vars, resize_vars, render_vars,
                  canvas_doc_has_set_current_chapter, current_chapter, flowables >>

NextBuild ==
  \/ CreatePdf
  \/ Build
  \/ DrawFlowable
  \/ DrawChapterMarker
  \/ HandlePageBreak
  \/ FrameFull

SpecBuild == InitBuild /\ [][NextBuild]_vars

(***************************************************************************)
(* Vocabulary of the properties.                                           *)
(***************************************************************************)
\* main has built the chapter list.
Grouped == pc \in {"enhance", "generate"}

DeckSlideNumbers == [i \in 1..Len(slides_content) |-> slides_content[i].slide_number]

\* The images extracted from the deck, and the images held by the chapters.
DeckImages == Flatten([i \in 1..Len(slides_content) |-> slides_content[i].images])
ChapterImages == Flatten([i \in 1..Len(chapters) |-> chapters[i].images])

TotalImagesExtracted == SumSeq([i \in 1..Len(slides_content) |-> Len(slides_content[i].images)])
SumOfChapterImages == SumSeq([i \in 1..Len(chapters) |-> Len(chapters[i].images)])

\* How many times the image with this id is held by the chapters.
Placements(id) == Cardinality({ i \in 1..Len(ChapterImages) : ChapterImages[i].id = id })

\* The slide numbers a range covers, and the ranges (by ordinal) that cover
\* at least one slide of the deck.
InRange(n, range) == range[1] <= n /\ n <= range[2]
Covered(n) == \E r \in 1..Len(custom_ranges) : InRange(n, custom_ranges[r])
MatchingRanges ==
  { r \in 1..Len(custom_ranges) :
      \E i \in 1..Len(slides_content) : InRange(slides_content[i].slide_number, custom_ranges[r]) }

\* The j-th smallest element of a finite set of integers.
NthSmallest(S, j) == CHOOSE x \in S : Cardinality({ y \in S : y < x }) = j - 1

StrictlyIncreasing(q) == \A i \in 1..(Len(q) - 1) : q[i] < q[i + 1]

C2_FixedSizePartition ==
  (Grouped /\ chapter_method = Automatic) =>
    /\ \A c \in 1..Len(chapters) :
         /\ chapters[c].slide_numbers # <<>>
         /\ StrictlyIncreasing(chapters[c].slide_numbers)
    /\ \A i \in 1..Len(slides_content) :
         Cardinality({ c \in 1..Len(chapters) :
                         \E m \in 1..Len(chapters[c].slide_numbers) :
                           chapters[c].slide_numbers[m] = slides_content[i].slide_number }) = 1
    /\ Flatten([c \in 1..Len(chapters) |-> chapters[c].slide_numbers]) = DeckSlideNumbers

C2_Witness ==
  /\ Grouped
  /\ chapter_method = Automatic
  /\ Len(slides_content) = 3
  /\ slides_per_chapter = 2
  /\ Len(chapters) = 2
  /\ chapters[1].slide_numbers = <<1, 2>>
  /\ chapters[2].slide_numbers = <<3>>

(***************************************************************************)
(* C3: fixed-size grouping of n >= 1 slides with chapter size k >= 1 gives *)
(* ceil(n/k) chapters; every chapter but the last has k members and the    *)
(* last has n mod k members, or k when n mod k = 0.                        *)
(***************************************************************************)
C3_FixedSizeCounts ==
  (Grouped /\ chapter_method = Automatic) =>
    LET n == Len(slides_content)
        k == slides_per_chapter
    IN  /\ Len(chapters) = (n + k - 1) \div k
        /\ \A c \in 1..(Len(chapters) - 1) : Len(chapters[c].slide_numbers) = k
        /\ Len(chapters[Len(chapters)].slide_numbers) = (IF n % k = 0 THEN k ELSE n % k)

C3_Witness ==
  /\ Grouped
  /\ chapter_method = Automatic
  /\ Len(slides_content) % slides_per_chapter # 0
  /\ Len(slides_content) > slides_per_chapter
  /\ Len(chapters[Len(chapters)].slide_numbers) < slides_per_chapter

(***************************************************************************)
(* C4: under custom ranges there is one chapter per range that covers at   *)
(* least one slide, in range input order, and the chapter of a range holds *)
(* exactly the slides whose number lies in start..end, in slide order; a   *)
(* range that covers no slide gives no chapter and no error, and the       *)
(* other ranges are still processed.                                       *)
(***************************************************************************)
C4_CustomRangeMembers ==
  (Grouped /\ chapter_method = CustomRanges) =>
    /\ ~raised
    /\ Len(chapters) = Cardinality(MatchingRanges)
    /\ \A c \in 1..Len(chapters) :
         LET range == custom_ranges[NthSmallest(MatchingRanges, c)]
             members == chapters[c].slide_numbers
         IN  /\ StrictlyIncreasing(members)
             /\ { members[m] : m \in 1..Len(members) } =
                  { n \in { DeckSlideNumbers[i] : i \in 1..Len(slides_content) } :
                      range[1] <= n /\ n <= range[2] }

C4_Witness ==
  /\ Grouped
  /\ chapter_method = CustomRanges
  /\ Len(custom_ranges) = 2
  /\ MatchingRanges = {2}
  /\ Len(chapters) = 1
  /\ Len(chapters[1].slide_numbers) >= 2
  /\ Len(chapters[1].slide_numbers) < Len(slides_content)

(***************************************************************************)
(* C5 (as stated): under custom ranges the chapter numbers of the output   *)
(* chapters are 1..k in range input order, k the number of ranges that     *)
(* produced a chapter: a skipped range leaves no gap.                      *)
(***************************************************************************)
C5_DenseRenumbering ==
  (Grouped /\ chapter_method = CustomRanges) =>
    \A c \in 1..Len(chapters) : chapters[c].chapter_number = c

(***************************************************************************)
(* C6 (as stated): under custom ranges no slide number is in more than one *)
(* chapter's slide numbers, whatever ranges the caller supplies.           *)
(***************************************************************************)
C6_NoSlideInTwoChapters ==
  (Grouped /\ chapter_method = CustomRanges) =>
    \A c, d \in 1..Len(chapters) :
      c # d =>
        { chapters[c].slide_numbers[m] : m \in 1..Len(chapters[c].slide_numbers) }
          \cap { chapters[d].slide_numbers[m] : m \in 1..Len(chapters[d].slide_numbers) } = {}

(***************************************************************************)
(* C7: when no range is skipped, the i-th chapter of the output list has   *)
(* chapter number i, under all three grouping policies.                    *)
(***************************************************************************)
NoRangeSkipped ==
  chapter_method = CustomRanges => MatchingRanges = 1..Len(custom_ranges)

C7_DenseNumbering ==
  (Grouped /\ NoRangeSkipped) =>
    \A c \in 1..Len(chapters) : chapters[c].chapter_number = c

C7_Witness ==
  /\ Grouped
  /\ chapter_method = CustomRanges
  /\ Len(custom_ranges) = 2
  /\ MatchingRanges = {1, 2}
  /\ Len(chapters) = 2
  /\ chapters[2].chapter_number = 2

(***************************************************************************)
(* C8 (as stated): every chapter built by any of the three policies has    *)
(* the title "Chapter {chapterNumber}" with its own chapter number.        *)
(***************************************************************************)
C8_TitleIsChapterNumber ==
  Grouped =>
    \A c \in 1..Len(chapters) : chapters[c].title = FmtChapter(chapters[c].chapter_number)

(***************************************************************************)
(* C9 (as stated): the one-per-slide policy builds the chapter list that   *)
(* fixed-size grouping with chapter size 1 builds for the same deck.       *)
(***************************************************************************)
C9_OnePerSlideIsGroupingOfOne ==
  (Grouped /\ chapter_method = OnePerSlide) =>
    chapters = _group_slides_into_chapters(slides_content, 1)

(***************************************************************************)
(* C10: when no text generator is configured, or its call fails, the       *)
(* enhancement of a chapter returns the fallback: the text is the          *)
(* chapter's title line, a blank line, then the content lines with a blank *)
(* line between neighbours; images, slide numbers and chapter number are   *)
(* the chapter's; and no exception reaches the caller.                     *)
(***************************************************************************)
RECURSIVE BlankLineSeparated(_)
BlankLineSeparated(lines) ==
  IF lines = <<>> THEN <<>>
  ELSE Head(lines) \o (IF Len(lines) > 1 THEN <<NL, NL>> ELSE <<>>)
         \o BlankLineSeparated(Tail(lines))

C10_FallbackOnUnavailability ==
  /\ ~raised
  /\ Len(calls) = Len(enhanced_content)
  /\ \A i \in 1..Len(enhanced_content) :
       calls[i].outcome \in {"no_model", "failed"} =>
         /\ enhanced_content[i].text =
              chapters[i].title \o <<NL>> \o <<NL>> \o BlankLineSeparated(chapters[i].content)
         /\ enhanced_content[i].images = chapters[i].images
         /\ enhanced_content[i].slide_numbers = chapters[i].slide_numbers
         /\ enhanced_content[i].chapter_number = chapters[i].chapter_number

C10_Witness ==
  \E i \in 1..Len(enhanced_content) :
    /\ calls[i].outcome = "failed"
    /\ Len(chapters[i].content) >= 2
    /\ chapters[i].images # <<>>
    /\ \E j \in 1..Len(enhanced_content) : calls[j].outcome = "ok"

(***************************************************************************)
(* C11 (as stated): _clean_ai_response is idempotent: called with its own  *)
(* result it returns that result, for every text, also one that starts     *)
(* with several unwanted phrases in a row or with several short lines that *)
(* end with a colon.                                                       *)
(***************************************************************************)
C11_CleanIdempotent ==
  Len(cleaned) = 2 => cleaned[2] = cleaned[1]

(***************************************************************************)
(* C12 (as stated): a text whose first line starts with an unwanted phrase *)
(* and goes on to the end of the line, followed by an empty line and the   *)
(* body, is cleaned to a text that begins with the body: nothing of the    *)
(* first line and no leading punctuation is left.                          *)
(***************************************************************************)
C12_PreambleStripped ==
  \A p \in PreambleLines :
    (cleaned # <<>> /\ response_text = Join(<<NL>>, << p, <<>>, BodyLine >>)) =>
      StartsWith(cleaned[1], BodyLine)

(***************************************************************************)
(* C15 (as stated): the dimensions given to an image depend on its width   *)
(* and height alone; an image beyond the 400x300 box in either dimension   *)
(* is scaled down with its aspect ratio kept, to a width of at most 400    *)
(* and a height of at most 300; an image within the box keeps its size     *)
(* (1600x900 -> 400x225, 300x900 -> 100x300, 200x100 unchanged).  This for *)
(* every size, also a wide image whose height is the binding dimension.    *)
(***************************************************************************)
Resized == img_size # None /\ new_size # None

WithinBox(w, h) == w <= max_width /\ h <= max_height

C15_ResizeFitsBox ==
  Resized =>
    LET w == img_size[1]
        h == img_size[2]
    IN  /\ new_size.new_width.num * new_size.new_height.den * h
             = new_size.new_height.num * new_size.new_width.den * w
        /\ FractionLeq(new_size.new_width, Whole(max_width))
        /\ FractionLeq(new_size.new_height, Whole(max_height))
        /\ WithinBox(w, h) =>
             new_size = [new_width |-> Whole(w), new_height |-> Whole(h)]
        /\ img_size = <<1600, 900>> =>
             new_size = [new_width |-> Whole(400), new_height |-> Whole(225)]
        /\ img_size = <<300, 900>> =>
             new_size = [new_width |-> Whole(100), new_height |-> Whole(300)]

(***************************************************************************)
(* C19: the enhancement loop handles the chapters one after the other, in  *)
(* list order, with one call of the enhancement (and so at most one call   *)
(* of the text generator) per chapter; the entry of a chapter depends on   *)
(* the outcome of its own call alone: the cleaned response when the call   *)
(* succeeded, the fallback text when it failed or no generator is          *)
(* configured, whatever happened to the other chapters; when the loop ends *)
(* the enhanced list has one entry per chapter, in chapter order, with     *)
(* increasing chapter numbers.                                             *)
(***************************************************************************)
C19_SequentialIsolated ==
  /\ ~raised
  /\ Len(calls) = Len(enhanced_content)
  /\ Len(calls) <= Len(chapters)
  /\ pc = "generate" => Len(enhanced_content) = Len(chapters)
  /\ \A i \in 1..Len(calls) :
       /\ calls[i].chapter_number = chapters[i].chapter_number
       /\ enhanced_content[i].chapter_number = chapters[i].chapter_number
       /\ enhanced_content[i].slide_numbers = chapters[i].slide_numbers
       /\ enhanced_content[i].images = chapters[i].images
       /\ calls[i].outcome = "ok" =>
            \E r \in Responses : enhanced_content[i].text = _clean_ai_response(r)
       /\ calls[i].outcome \in {"failed", "no_model"} =>
            enhanced_content[i].text = FallbackText(chapters[i])
  /\ \A i, j \in 1..Len(enhanced_content) :
       i < j => enhanced_content[i].chapter_number < enhanced_content[j].chapter_number

C19_Witness ==
  /\ pc = "generate"
  /\ Len(chapters) = 3
  /\ calls[1].outcome = "ok"
  /\ calls[2].outcome = "failed"
  /\ calls[3].outcome = "ok"
  /\ enhanced_content[1].text # FallbackText(chapters[1])
  /\ enhanced_content[2].text = FallbackText(chapters[2])

(***************************************************************************)
(* Vocabulary of the properties of the generated documents.                *)
(***************************************************************************)
\* The documents generated so far, as block sequences.
Generated ==
  (IF story # None THEN { story } ELSE {}) \cup (IF document # None THEN { document } ELSE {})

\* The block shows the image with this id.
IsImageOf(block, id) ==
  \/ block.kind = "Image" /\ block.id = id
  \/ block.kind = "Paragraph" /\ "picture" \in DOMAIN block /\ block.picture = id

\* The block is the heading paragraph the assembler emits for a section.
IsSectionHeading(block) ==
  block.kind = "Paragraph" /\ block.style \in {"CustomH2", "bold 0.2in"}

\* The block is an image, a caption, the spacer after a caption or the empty
\* paragraph of a picture that could not be added.
IsImageMatter(block) ==
  \/ block.kind \in {"Image", "Spacer"}
  \/ block.kind = "Paragraph" /\ block.style \in {"ImageCaption", "caption", "center"}

\* How many blocks show the image.
TimesPlaced(blocks, id) ==
  Cardinality({ p \in 1..Len(blocks) : IsImageOf(blocks[p], id) })

\* The position of the last section heading before position p, 0 if none.
LastHeadingBefore(blocks, p) ==
  LET hs == { q \in 1..(p - 1) : IsSectionHeading(blocks[q]) }
  IN  IF hs = {} THEN 0 ELSE CHOOSE q \in hs : \A r \in hs : r <= q

\* The image is shown after the section heading with this text, with
\* nothing but images and captions in between.
PlacedRightAfterHeading(blocks, id, heading_text) ==
  \E p \in 1..Len(blocks) :
    /\ IsImageOf(blocks[p], id)
    /\ LET q == LastHeadingBefore(blocks, p)
       IN  /\ q > 0
           /\ blocks[q].text = heading_text
           /\ \A r \in (q + 1)..(p - 1) : IsImageMatter(blocks[r])

\* The sections of a chapter text, the leading one first, and the text of
\* the heading block of a section.
SectionsOf(content) == SplitOn(content.text, <<"#", "#", " ">>)

SectionHeadingText(section) ==
  MarkdownCleanText(FmtHeading2(Strip(SplitLines(Strip(section))[1])))

ReadableImagesOfSlide(content, slide_num) ==
  SelectSeq(content.images,
            LAMBDA img : img.slide_number = slide_num /\ img.id \notin unreadable)

(***************************************************************************)
(* C13 (as stated): in a chapter the i-th section after the leading one    *)
(* (i >= 1, the text split on "## ") stands for the i-th slide of the      *)
(* chapter, and the images of that slide are shown right after the heading *)
(* block of that section, before the section's paragraphs, in both         *)
(* documents.                                                              *)
(***************************************************************************)
C13_SectionImagesAfterHeading ==
  \A blocks \in Generated :
    \A c \in 1..Len(enhanced_content) :
      LET content == enhanced_content[c]
          sections == SectionsOf(content)
      IN  \A i \in 1..(Len(sections) - 1) :
            (Strip(sections[i + 1]) # <<>> /\ i <= Len(content.slide_numbers)) =>
              LET images == ReadableImagesOfSlide(content, content.slide_numbers[i])
              IN  \A k \in 1..Len(images) :
                    PlacedRightAfterHeading(blocks, images[k].id,
                                            SectionHeadingText(sections[i + 1]))

(***************************************************************************)
(* C14: with every image readable, each image of a chapter is shown        *)
(* exactly once in each generated document, whatever the chapter text is:  *)
(* fewer sections than slides, more sections than slides, no "## " heading *)
(* at all.                                                                 *)
(***************************************************************************)
C14_EveryImageOnce ==
  unreadable = {} =>
    \A blocks \in Generated :
      \A c \in 1..Len(enhanced_content) :
        \A k \in 1..Len(enhanced_content[c].images) :
          TimesPlaced(blocks, enhanced_content[c].images[k].id) = 1

C14_Witness ==
  /\ unreadable = {}
  /\ story # None
  /\ document # None
  /\ \E c \in 1..Len(enhanced_content) :
       LET content == enhanced_content[c]
           sections == SectionsOf(content)
           last == content.slide_numbers[Len(content.slide_numbers)]
       IN  /\ Len(content.slide_numbers) >= 2
           /\ Len(content.images) >= 3
           /\ Len(sections) - 1 < Len(content.slide_numbers)
           /\ ReadableImagesOfSlide(content, last) # <<>>
           /\ \A k \in 1..Len(content.images) :
                TimesPlaced(story, content.images[k].id) = 1
                  /\ TimesPlaced(document, content.images[k].id) = 1

(***************************************************************************)
(* C17 (as stated): the chapters of the one-slide-per-chapter policy are   *)
(* rendered with the simple variant in both documents: the paragraphs of   *)
(* the text, then the images of the chapter.                               *)
(***************************************************************************)
SimplePdf ==
  PdfTitlePage
    \o Flatten([k \in 1..Len(enhanced_content) |->
                  (IF k > 1 THEN << Spacer(3) >> ELSE <<>>)
                    \o << ChapterMarker(enhanced_content[k].chapter_number),
                          Paragraph(PdfChapterTitle(enhanced_content[k].text, k - 1),
                                    "ChapterTitle") >>
                    \o _process_single_slide_content(enhanced_content[k].text,
                          enhanced_content[k].images, k,
                          enhanced_content[k].slide_numbers[1], unreadable)
                    \o << Spacer(1) >>])

SimpleDocx ==
  DocxTitlePage
    \o Flatten([k \in 1..Len(enhanced_content) |->
                  _process_single_slide_content_docx(enhanced_content[k].text,
                    enhanced_content[k].images, enhanced_content[k].chapter_number,
                    unreadable)])

C17_OnePerSlideSimpleVariant ==
  chapter_method = OnePerSlide =>
    /\ story # None => story = SimplePdf
    /\ document # None => document = SimpleDocx

(***************************************************************************)
(* C18 (as stated): an image whose bytes cannot be read leaves nothing in  *)
(* either document, no image, no caption and no empty block, and every     *)
(* other block is emitted as it is when all images can be read.            *)
(***************************************************************************)
\* The blocks without the image blocks of the unreadable images and the
\* `extra` blocks that follow each of them (caption, spacer).
RECURSIVE WithoutImages(_, _, _)
WithoutImages(blocks, ids, extra) ==
  IF blocks = <<>> THEN <<>>
  ELSE IF \E id \in ids : IsImageOf(Head(blocks), id)
  THEN WithoutImages(SubSeq(blocks, 2 + extra, Len(blocks)), ids, extra)
  ELSE << Head(blocks) >> \o WithoutImages(Tail(blocks), ids, extra)

C18_UnreadableImageSkipped ==
  /\ story # None =>
       story = WithoutImages(create_pdf_ebook(enhanced_content, {}), unreadable, 2)
  /\ document # None =>
       document = WithoutImages(create_docx_ebook(enhanced_content, {}), unreadable, 1)

(***************************************************************************)
(* C20 (as stated): when the chapter text has a leading section before the *)
(* first "## " heading and sections after it, no image is shown with the   *)
(* leading section: no image follows its first block, and the images of    *)
(* the first slide are shown right after the heading of the first section  *)
(* after the leading one.                                                  *)
(***************************************************************************)
C20_LeadingSectionWithoutImages ==
  \A blocks \in Generated :
    \A c \in 1..Len(enhanced_content) :
      LET content == enhanced_content[c]
          sections == SectionsOf(content)
          images == ReadableImagesOfSlide(content, content.slide_numbers[1])
      IN  (/\ Strip(sections[1]) # <<>>
           /\ Len(sections) >= 2
           /\ Strip(sections[2]) # <<>>) =>
            \A k \in 1..Len(images) :
              /\ ~PlacedRightAfterHeading(blocks, images[k].id,
                                          SectionHeadingText(sections[1]))
              /\ PlacedRightAfterHeading(blocks, images[k].id,
                                         SectionHeadingText(sections[2]))

(***************************************************************************)
(* The markers the build has consumed: the story without the flowables     *)
(* that are not handled yet.                                               *)
(***************************************************************************)
ConsumedMarkers ==
  IF pages = <<>> THEN <<>>
  ELSE SelectSeq(SubSeq(story, 1, Len(story) - Len(flowables)),
                 LAMBDA f : f.kind = "ChapterMarker")

ConsumesMarker ==
  /\ pages # <<>>
  /\ flowables # <<>>
  /\ Head(flowables).kind = "ChapterMarker"
  /\ flowables' = Tail(flowables)

(***************************************************************************)
(* C16: in the build of the PDF the current-chapter value changes only in  *)
(* a step that consumes a ChapterMarker; a step that consumes a marker     *)
(* leaves the value at that marker's chapter number; and a page that is    *)
(* decorated when the last marker consumed is marker m shows "Chapter m"   *)
(* in its footer.                                                          *)
(***************************************************************************)
C16_CurrentChapterFollowsMarkers ==
  [][ /\ current_chapter' # current_chapter => ConsumesMarker
      /\ ConsumesMarker => current_chapter' = Head(flowables).chapter_num
      /\ (Len(pages') > Len(pages) /\ ConsumedMarkers' # <<>>) =>
           pages'[Len(pages')].chapter_text =
             <<"Chapter", " ",
               ToString(ConsumedMarkers'[Len(ConsumedMarkers')].chapter_num)>>
    ]_vars

(***************************************************************************)
(* Vocabulary of the properties of one chapter of a generated document.    *)
(***************************************************************************)
\* The positions of the chapter markers of the story.
MarkerPositions ==
  { p \in 1..Len(story) : story[p].kind = "ChapterMarker" }

\* The blocks of the c-th chapter of the story: from its marker to the block
\* before the next marker.
PdfChapterOf(c) ==
  LET start == CHOOSE p \in MarkerPositions :
                 Cardinality({ q \in MarkerPositions : q <= p }) = c
      later == { q \in MarkerPositions : q > start }
      end == IF later = {} THEN Len(story)
             ELSE (CHOOSE q \in later : \A r \in later : q <= r) - 1
  IN  SubSeq(story, start, end)

\* The paragraphs of the c-th chapter of the DOCX document, which has no
\* mark between chapters: the chapters are told apart by their lengths.
DocxChapterOf(c) ==
  LET before == Len(DocxTitlePage)
                  + SumSeq([k \in 1..(c - 1) |->
                              Len(DocxChapter(enhanced_content[k], unreadable))])
  IN  SubSeq(document, before + 1,
             before + Len(DocxChapter(enhanced_content[c], unreadable)))

GeneratedChapter(c) ==
  (IF story # None THEN { PdfChapterOf(c) } ELSE {})
    \cup (IF document # None THEN { DocxChapterOf(c) } ELSE {})

\* The id of the image a block shows.
ImageIdOf(block) == IF block.kind = "Image" THEN block.id ELSE block.picture

IsImageBlock(block) ==
  \/ block.kind = "Image"
  \/ block.kind = "Paragraph" /\ "picture" \in DOMAIN block /\ block.picture # None

\* The ids of the images of a block sequence, in the order they are shown.
ImageIdsShown(blocks) ==
  LET shown == SelectSeq(blocks, IsImageBlock)
  IN  [k \in 1..Len(shown) |-> ImageIdOf(shown[k])]

\* The slides of a chapter no section stands for: the j-th slide of the
\* chapter when the text has no j-th section after the leading one, or an
\* empty one.
UnassociatedSlides(content) ==
  LET sections == SectionsOf(content)
      free == { j \in 1..Len(content.slide_numbers) :
                  j + 1 > Len(sections) \/ Strip(sections[j + 1]) = <<>> }
  IN  SelectSeq(content.slide_numbers,
                LAMBDA n : \E j \in free : content.slide_numbers[j] = n)

\* The readable images of the slide as the extraction recorded them.
ExtractedImageIds(slide_num) ==
  LET images == SelectSeq(slides_content[slide_num].images,
                          LAMBDA img : img.id \notin unreadable)
  IN  [k \in 1..Len(images) |-> images[k].id]

(***************************************************************************)
(* C21 (as stated): the images of the slides of a chapter that no section  *)
(* stands for are shown at the end of the chapter, after every text block  *)
(* of the chapter, in slide order and, within a slide, in extraction       *)
(* order, in both documents.                                               *)
(***************************************************************************)
C21_UnassociatedImagesFlushedAtEnd ==
  \A c \in 1..Len(enhanced_content) :
    \A blocks \in GeneratedChapter(c) :
      LET content == enhanced_content[c]
          free == UnassociatedSlides(content)
          expected == Flatten([j \in 1..Len(free) |-> ExtractedImageIds(free[j])])
          ids == { expected[k] : k \in 1..Len(expected) }
      IN  /\ SelectSeq(ImageIdsShown(blocks), LAMBDA id : id \in ids) = expected
          /\ \A p \in 1..Len(blocks) :
               (IsImageBlock(blocks[p]) /\ ImageIdOf(blocks[p]) \in ids) =>
                 \A q \in (p + 1)..Len(blocks) :
                   blocks[q].kind = "ChapterMarker" \/ IsImageMatter(blocks[q])

\* The image of the chapter with this id.
ImageWithId(content, id) ==
  LET found == SelectSeq(content.images, LAMBDA img : img.id = id)
  IN  found[1]

IsCaption(block) ==
  block.kind = "Paragraph" /\ block.style \in {"ImageCaption", "caption"}

(***************************************************************************)
(* C22 (as stated): in both documents every image of a chapter is followed *)
(* by its caption, which begins with "Diagram" when the image is           *)
(* classified as a diagram and with "Figure" otherwise, then a space, the  *)
(* chapter's chapter_number and a dot, whatever the position of the        *)
(* chapter in the list of enhanced chapters.                               *)
(***************************************************************************)
C22_CaptionLabelAndChapterNumber ==
  \A c \in 1..Len(enhanced_content) :
    \A blocks \in GeneratedChapter(c) :
      \A p \in 1..Len(blocks) :
        IsImageBlock(blocks[p]) =>
          /\ p < Len(blocks)
          /\ IsCaption(blocks[p + 1])
          /\ LET image == ImageWithId(enhanced_content[c], ImageIdOf(blocks[p]))
                 caption == blocks[p + 1].text
             IN  /\ Len(caption) >= 4
                 /\ caption[1] = (IF image.type = "diagram" THEN "Diagram" ELSE "Figure")
                 /\ caption[2] = " "
                 /\ caption[3] = ToString(enhanced_content[c].chapter_number)
                 /\ caption[4] = "."

\* The blocks without the spacers.
WithoutSpacers(blocks) == SelectSeq(blocks, LAMBDA b : b.kind # "Spacer")

\* The markers of the story, in order.
MarkersOf(blocks) == SelectSeq(blocks, LAMBDA b : b.kind = "ChapterMarker")

(***************************************************************************)
(* C23: the story has exactly one ChapterMarker per chapter, in chapter    *)
(* order, each with the chapter_number of its chapter; nothing but the     *)
(* title page comes before the first marker; and the title, headings,      *)
(* paragraphs, images and captions of a chapter are the blocks between its *)
(* marker and the next marker (or the end of the story), the chapter title *)
(* right after the marker.  Spacers are not counted.                       *)
(***************************************************************************)
C23_MarkerStartsChapter ==
  story # None =>
    /\ MarkersOf(story) =
         [c \in 1..Len(enhanced_content) |->
            ChapterMarker(enhanced_content[c].chapter_number)]
    /\ \A p \in MarkerPositions :
         (\A q \in MarkerPositions : p <= q) => SubSeq(story, 1, p - 1) = PdfTitlePage
    /\ \A c \in 1..Len(enhanced_content) :
         LET chapter == PdfChapterOf(c)
             content == enhanced_content[c]
         IN  /\ chapter[1] = ChapterMarker(content.chapter_number)
             /\ chapter[2] = Paragraph(PdfChapterTitle(content.text, c - 1), "ChapterTitle")
             /\ WithoutSpacers(SubSeq(chapter, 3, Len(chapter))) =
                  WithoutSpacers(PdfChapterBody(content, c - 1, unreadable))

C23_Witness ==
  /\ story # None
  /\ Len(enhanced_content) >= 2
  /\ Len(MarkersOf(story)) = Len(enhanced_content)
  /\ \E p \in 1..Len(PdfChapterOf(2)) : IsImageBlock(PdfChapterOf(2)[p])
  /\ \E p \in 1..Len(PdfChapterOf(1)) : IsImageBlock(PdfChapterOf(1)[p])

(***************************************************************************)
(* Vocabulary of heading normalization.                                    *)
(***************************************************************************)
\* The text the normalization loop of _clean_ai_response is given: what is
\* left of the response when the unwanted phrases and the intro line are
\* removed.
TextToNormalize == DropIntroLine(RemovePhrases(Strip(response_text), 1))

\* Its lines, trimmed.
TrimmedLines ==
  LET lines == SplitLines(TextToNormalize)
  IN  [i \in 1..Len(lines) |-> Strip(lines[i])]

\* The lines of a result; an empty result has no line.
ResultLines(text) == IF text = <<>> THEN <<>> ELSE SplitLines(text)

\* out is the normal form of the trimmed line: for a heading line as many
\* markers as the line has, four at most, one space, and the rest of the
\* line from its first character that is neither a colon nor white space;
\* for another line the line itself.
IsNormalFormOf(out, line) ==
  IF line # <<>> /\ Head(line) = "#"
  THEN LET n == CountHashes(line)
           level == IF n > MaxHeadingLevel THEN MaxHeadingLevel ELSE n
           heading_text == SubSeq(out, level + 2, Len(out))
           after == SubSeq(line, n + 1, Len(line))
       IN  /\ Len(out) >= level + 1
           /\ \A i \in 1..level : out[i] = "#"
           /\ out[level + 1] = " "
           /\ heading_text # <<>> => Head(heading_text) \notin ({":"} \cup Whitespace)
           /\ \E d \in 0..Len(after) :
                /\ SubSeq(after, d + 1, Len(after)) = heading_text
                /\ \A i \in 1..d : after[i] \in ({":"} \cup Whitespace)
  ELSE out = line

(***************************************************************************)
(* C24 (as stated): the result of _clean_ai_response has one line for      *)
(* every line of the text it normalizes, in order: a line that begins with *)
(* heading markers as the same number of markers (four for more than       *)
(* four), exactly one space and the heading text without leading colon or  *)
(* spaces; any other line trimmed.                                         *)
(***************************************************************************)
C24_HeadingNormalization ==
  (cleaned # <<>> /\ response_text # <<>>) =>
    LET out == SplitLines(cleaned[1])
    IN  /\ Len(out) = Len(TrimmedLines)
        /\ \A i \in 1..Len(out) : IsNormalFormOf(out[i], TrimmedLines[i])

\* The keyword set of the classification as one set.
AllDiagramKeywords ==
  {"diagram", "flowchart", "chart", "flow", "process", "smartart", "graphic", "workflow",
   "steps", "procedure"}

\* The whole text of an extracted slide: its title and its content.
SlideText(slide) == slide.title \o <<" ">> \o Join(<<" ">>, slide.content)

(***************************************************************************)
(* C25 (as stated): an extracted picture is tagged as a diagram if and     *)
(* only if its shape name or the whole text of its slide (title and        *)
(* content) contains, in any case, a keyword of the one keyword set;       *)
(* the tag does not depend on where the picture stands among the shapes    *)
(* of the slide.                                                           *)
(***************************************************************************)
C25_DiagramClassification ==
  \A n \in 1..Len(slides_content) :
    \A k \in 1..Len(slides_content[n].images) :
      LET image == slides_content[n].images[k]
      IN  image.type = "diagram" <=>
            \/ ContainsAny(image.shape_name, AllDiagramKeywords)
            \/ ContainsAny(SlideText(slides_content[n]), AllDiagramKeywords)

(***************************************************************************)
(* C28 (as stated): the slide title recorded on an extracted image is the  *)
(* final title of its slide, whatever the order of the picture and the     *)
(* text shapes, also when the slide gets the default title "Slide n".      *)
(***************************************************************************)
C28_ImageSlideTitleIsSlideTitle ==
  \A n \in 1..Len(slides_content) :
    \A k \in 1..Len(slides_content[n].images) :
      slides_content[n].images[k].slide_title = slides_content[n].title

\* The number of a caption: "{chapter_num}.{ordinal}".
CaptionNumber(block) == SubSeq(block.text, 3, 5)

(***************************************************************************)
(* C27 (as stated): within the output of one chapter no two captions carry *)
(* the same number "{chapter_num}.{ordinal}", also when the images of the  *)
(* chapter come from several slides, in both documents.                    *)
(***************************************************************************)
C27_CaptionNumbersUnique ==
  \A c \in 1..Len(enhanced_content) :
    \A blocks \in GeneratedChapter(c) :
      \A p, q \in 1..Len(blocks) :
        (p # q /\ IsCaption(blocks[p]) /\ IsCaption(blocks[q])) =>
          CaptionNumber(blocks[p]) # CaptionNumber(blocks[q])

\* The styles of the heading paragraphs of the two documents.
HeadingStyles ==
  {"ChapterTitle"} \cup { PdfStyleOfLevel(l) : l \in 1..MaxHeadingLevel }
                  \cup { DocxStyleOfLevel(l) : l \in 1..MaxHeadingLevel }

\* What a block of either document is: a heading, a paragraph, an image, a
\* caption, or none of them (spacer, chapter marker, page break).
BlockRole(block) ==
  CASE IsImageBlock(block) -> "image"
    [] block.kind # "Paragraph" -> "none"
    [] IsCaption(block) -> "caption"
    [] block.style \in HeadingStyles -> "heading"
    [] OTHER -> "paragraph"

\* The block without what belongs to one document only.
ContentBlock(block) ==
  [role |-> BlockRole(block),
   text |-> IF IsImageBlock(block) THEN <<>> ELSE block.text,
   image |-> IF IsImageBlock(block) THEN ImageIdOf(block) ELSE None]

ContentBlocksOf(blocks) ==
  LET kept == SelectSeq(blocks, LAMBDA b : BlockRole(b) # "none")
  IN  [k \in 1..Len(kept) |-> ContentBlock(kept[k])]

(***************************************************************************)
(* C26 (as stated): for the same list of enhanced chapters the PDF and the *)
(* DOCX hold, chapter by chapter, the same sequence of heading, paragraph, *)
(* image and caption blocks, with the same texts and the same caption      *)
(* numbers.                                                                *)
(***************************************************************************)
C26_RenderersEmitSameBlocks ==
  (story # None /\ document # None) =>
    \A c \in 1..Len(enhanced_content) :
      ContentBlocksOf(PdfChapterOf(c)) = ContentBlocksOf(DocxChapterOf(c))

\* The level-2 heading lines of a chapter text, in order.
Level2HeadingLines(text) ==
  SelectSeq(SplitLines(text), LAMBDA line : MarkdownLevel(line) = 2)

\* The text has a heading line of level 3 or 4.
HasSubheading(text) ==
  \E k \in 1..Len(SplitLines(text)) : MarkdownLevel(SplitLines(text)[k]) \in {3, 4}

(***************************************************************************)
(* C29 (as stated): only the level-2 heading lines of a chapter text start *)
(* a section.  In a chapter whose text begins with a level-2 heading, the  *)
(* j-th level-2 heading line stands for the j-th slide of the chapter,     *)
(* also when heading lines of level 3 or 4 stand between the level-2       *)
(* ones: the images of the j-th slide are shown right after the heading    *)
(* block of the j-th level-2 heading line, in both documents.              *)
(***************************************************************************)
C29_OnlyLevel2HeadingsDelimit ==
  \A c \in 1..Len(enhanced_content) :
    \A blocks \in GeneratedChapter(c) :
      LET content == enhanced_content[c]
          headings == Level2HeadingLines(content.text)
      IN  (IsGrouped(content) /\ Strip(SectionsOf(content)[1]) = <<>>) =>
            \A j \in 1..Len(headings) :
              j <= Len(content.slide_numbers) =>
                LET images == ReadableImagesOfSlide(content, content.slide_numbers[j])
                IN  \A k \in 1..Len(images) :
                      PlacedRightAfterHeading(blocks, images[k].id,
                                              MarkdownCleanText(headings[j]))

\* The c-th chapter was made by the grouper and its text is the fallback
\* text.
IsGroupedFallback(c) ==
  /\ IsGrouped(chapters[c])
  /\ enhanced_content[c].text = FallbackText(chapters[c])

(***************************************************************************)
(* C30 (as stated): in a chapter made by the grouper and given the         *)
(* fallback text, every readable image is shown right after the heading    *)
(* block whose text is the title of the slide the image comes from, for    *)
(* every slide of the chapter, the first one included, also when a slide   *)
(* of the chapter has the default title, in both documents.                *)
(***************************************************************************)
C30_FallbackImagesAfterSlideTitle ==
  \A c \in 1..Len(enhanced_content) :
    \A blocks \in GeneratedChapter(c) :
      IsGroupedFallback(c) =>
        \A k \in 1..Len(enhanced_content[c].images) :
          LET image == enhanced_content[c].images[k]
          IN  image.id \notin unreadable =>
                PlacedRightAfterHeading(blocks, image.id,
                                        slides_content[image.slide_number].title)

====
